---- MODULE Spec2Model ----
(***************************************************************************)
(* Native service host of frameworks_base (libs/native_activity_thread):   *)
(* the task handoff (task.rs), the lifecycle manager                       *)
(* (native_activity_thread.rs), the module loader (library_loader.rs) and  *)
(* the RPC endpoint (native_application_thread.rs).                        *)
(***************************************************************************)
EXTENDS Integers, Sequences, FiniteSets, TLC

(***************************************************************************)
(* Bounds of the model.                                                    *)
(***************************************************************************)
\* number of binder threads that call the RPC endpoint concurrently
NumSenders == 2
\* number of remote calls made through the endpoint in one run
MaxSends == 3
\* number of linker namespaces the lifecycle manager may create in one run
MaxLoads == 2
\* number of namespaces registered in one run of the namespace factory alone
MaxNamespaces == 6
\* calls of set_authorized_attribute on one device path in a run
MaxAttrCalls == 2

(***************************************************************************)
(* Program constants.                                                      *)
(***************************************************************************)
\* ProcessStateEnum::UNKNOWN
PROCESS_STATE_UNKNOWN == -1
\* ProcessStateEnum::TOP
PROCESS_STATE_TOP == 2
\* ProcessStateEnum::IMPORTANT_FOREGROUND
PROCESS_STATE_IMPORTANT_FOREGROUND == 6
\* ProcessStateEnum::IMPORTANT_BACKGROUND
PROCESS_STATE_IMPORTANT_BACKGROUND == 7
\* ANATIVE_SERVICE_TRIM_MEMORY_UI_HIDDEN
TRIM_MEMORY_UI_HIDDEN == 20
\* ANATIVE_SERVICE_TRIM_MEMORY_BACKGROUND
TRIM_MEMORY_BACKGROUND == 40
\* a trim level the NDK does not define
TRIM_MEMORY_OTHER == 5
\* NamespaceFactory::serial is a u32, kept as two 16-bit halves [hi, lo] of value
\* hi * 65536 + lo; this is the largest value of a half
U16_MAX == 65535
\* start_seq handed to NativeActivityThread::new
StartSeq == 9

(***************************************************************************)
(* Values the orchestrator and the hosted modules supply.                  *)
(***************************************************************************)
ServiceTokens == {1, 2}
BindTokens == {3}
IntentHashes == {7, 8}
\* a non-null AIBinder pointer returned by onBind, and the null pointer
BinderPtrs == {"null", "binder"}

\* Option<String>: a string is a sequence of code points, 0 being U+0000
None == [some |-> FALSE, s |-> <<>>]
Some(s) == [some |-> TRUE, s |-> s]
OptStrings == {None, Some(<<97>>), Some(<<97, 0, 98>>)}

\* the entry points a module's creation function may fill in
AllCallbacks == {"onBind", "onUnbind", "onRebind", "onDestroy", "onTrimMemory"}
CallbackSets == {AllCallbacks, AllCallbacks \ {"onBind"}, {}}

Senders == 1..NumSenders

(***************************************************************************)
(* State.                                                                  *)
(***************************************************************************)
VARIABLES
    \* NativeActivityThread
    services,        \* BTreeMap<SpIBinder, NativeService>
    process_state,   \* i32
    serial,          \* NamespaceFactory::serial
    \* OS loader
    opened,          \* number of libraries opened so far; handle k is the k-th
    closed,          \* handles on which dlclose has been called
    \* Task handoff
    queue,           \* the mpsc channel: tasks sent and not yet received
    efd,             \* the eventfd counter
    senderPc,        \* per binder thread: "idle", or "wake" between tx.send and eventfd_write
    ownerPc,         \* owner thread: "poll", "drain", "halted" (panicked), "gone"
                     \* (the Handler dropped)
    \* history
    sent,            \* the tasks enqueued so far, in the order of their tx.send; the
                     \* n-th has id n
    dispatched,      \* handle_task calls so far: <<[id, task, ok]>>
    live,            \* tokens of the CreateService tasks handled so far that no
                     \* DestroyService task handled after them named
    lastTask,        \* the task of the latest handle_task call
    lastEnv,         \* what the loader, the module and the orchestrator answered in it
    lastOk,          \* whether it returned Ok
    lastEvents,      \* foreign calls, outbound calls and loader calls it made, in order
    prev,            \* services, process_state, closed before it
    lastCreate,      \* the call before the latest one, if it was a CreateService
                     \* that returned Ok: its token, the table before it, its library
    nsLog,           \* the names android_create_namespace registered, in order
    lastCall         \* the remote call that returned last: what Sender::send and
                     \* the call returned, whether the Handler was alive at tx.send,
                     \* whether the task went into the channel, and what
                     \* eventfd_write answered

\* the native service host
nativeVars == <<services, process_state, serial, opened, closed, queue, efd, senderPc,
          ownerPc, sent, dispatched, live, lastTask, lastEnv, lastOk, lastEvents, prev,
          lastCreate, nsLog, lastCall>>

VARIABLES
    \* PciAuthorizerTask
    policy_data,             \* PolicySourceData
    current_pci_auth_state,  \* PciAuthState
    taskPc,                  \* "run" in the loop of run(), "done" after it returned
    \* PciAuthorizer
    event_channel,           \* the mpsc channel of PciServiceEvent, oldest first
    authorizerPc,            \* "alive", or "dropped" after Drop
    \* sysfs and the uevent socket
    tbt,                     \* per thunderbolt device: "absent", or the first
                             \* character of its authorized attribute
    pci,                     \* per PCI device: "absent", "fixed" (removable is not
                             \* 1), "removable", or "removed" (1 written to remove)
    uevents,                 \* thunderbolt devices with an add uevent not yet read
    \* history
    pciLast,                 \* the latest policy event handled, or the latest
                             \* uevent that led to a write: the event, the state
                             \* before it, the operation of sysfs it ran and
                             \* whether that returned Ok
    issued,                  \* the PolicySourceData with every update issued
                             \* through TunnelControl applied, in the order issued
    \* one device path of sysfs seen by set_authorized_attribute
    devpath,                 \* whether it exists, where its subsystem link
                             \* points, its authorized attribute
    attr_calls               \* the calls made on it: the arguments, the path
                             \* before and after, the result, whether it wrote

\* the usb4 PCI authorizer
pciVars == <<policy_data, current_pci_auth_state, taskPc, event_channel, authorizerPc,
             tbt, pci, uevents, pciLast, issued, devpath, attr_calls>>

vars == <<nativeVars, pciVars>>

(***************************************************************************)
(* usb4 PCI authorizer: policy (common.rs, pci_authorizer.rs).             *)
(***************************************************************************)
\* const MESSAGE_QUEUE_SIZE: usize = 10
MESSAGE_QUEUE_SIZE == 10

UserIds == {1, 2}
TbtDevices == {"0-1", "0-3"}
PciDevices == {"03:00.0", "04:00.0"}

\* enum PciAuthState
PciAuthStates == {"Disabled", "DenyNoUser", "DeferNewDevices", "Authorized"}

\* enum PciServiceEvent; a field the variant does not have is FALSE or 0
EnablePciTunnels(enable) == [kind |-> "EnablePciTunnels", flag |-> enable, user_id |-> 0]
UpdateLockState(locked) == [kind |-> "UpdateLockState", flag |-> locked, user_id |-> 0]
UpdateLoggedInState(logged_in, user_id) ==
    [kind |-> "UpdateLoggedInState", flag |-> logged_in, user_id |-> user_id]
Shutdown == [kind |-> "Shutdown", flag |-> FALSE, user_id |-> 0]

\* the events the TunnelControl methods of PciAuthorizer send
PolicyEvents ==
    {EnablePciTunnels(b) : b \in BOOLEAN}
    \cup {UpdateLockState(b) : b \in BOOLEAN}
    \cup {UpdateLoggedInState(b, u) : b \in BOOLEAN, u \in UserIds}

\* PolicySourceData::new
PolicySourceData_new ==
    [pci_tunnels_enabled |-> FALSE, is_locked |-> TRUE, logged_in_users |-> {}]

\* a state computed without looking at the screen lock
calculate_auth_state_ignores_lock(pd) ==
    IF ~pd.pci_tunnels_enabled THEN "Disabled"
    ELSE IF pd.logged_in_users = {} THEN "DenyNoUser"
    ELSE "Authorized"

\* PciAuthorizerTask::calculate_auth_state
calculate_auth_state(pd) ==
    LET allow_flag == pd.pci_tunnels_enabled
        screen_unlocked == ~pd.is_locked
        has_logged_in_users == pd.logged_in_users # {}
    IN IF ~allow_flag THEN "Disabled"
       ELSE IF ~has_logged_in_users THEN "DenyNoUser"
       ELSE IF ~screen_unlocked THEN "DeferNewDevices"
       ELSE "Authorized"

\* the first match of handle_service_event: the policy data after the event
UpdatePolicy(pd, ev) ==
    CASE ev.kind = "EnablePciTunnels" -> [pd EXCEPT !.pci_tunnels_enabled = ev.flag]
      [] ev.kind = "UpdateLockState" -> [pd EXCEPT !.is_locked = ev.flag]
      [] ev.kind = "UpdateLoggedInState" ->
           [pd EXCEPT !.logged_in_users =
              IF ev.flag THEN @ \cup {ev.user_id} ELSE @ \ {ev.user_id}]
      [] OTHER -> pd

\* a bulk deauthorization also when the screen is locked
BulkAction_deauthorize_on_lock(old_state, new_state) ==
    CASE new_state = "Authorized" -> "authorize"
      [] OTHER -> "deauthorize"

\* the second match of handle_service_event: match (old_state, new_state)
BulkAction(old_state, new_state) ==
    CASE new_state = "Authorized" -> "authorize"
      [] new_state \in {"DenyNoUser", "Disabled"} -> "deauthorize"
      [] OTHER -> "none"

(***************************************************************************)
(* usb4 PCI authorizer: sysfs (sysfs.rs).                                  *)
(***************************************************************************)
\* what the operating system answers to one bulk operation: whether each
\* directory can be listed, and the devices whose attribute write it refuses
IoAnswers ==
    [tbt_dir_ok : BOOLEAN, pci_dir_ok : BOOLEAN,
     write_fail : SUBSET TbtDevices, remove_fail : SUBSET PciDevices]
IoOk == [tbt_dir_ok |-> TRUE, pci_dir_ok |-> TRUE, write_fail |-> {}, remove_fail |-> {}]

\* a path that does not exist
NoDevPath == [exists |-> FALSE, subsystem |-> "none", authorized |-> "nofile"]

\* a device path: whether it exists; where its subsystem link points
\* ("unreadable" when read_link fails); its authorized attribute: no such
\* file, a file that cannot be read, an empty file, or the first character
\* of its content
DevPaths ==
    {NoDevPath} \cup
    [exists : {TRUE}, subsystem : {"thunderbolt", "pci", "unreadable"},
     authorized : {"nofile", "unreadable", "empty", "0", "1"}]

\* a set_authorized_attribute that writes the value whatever the attribute
\* holds
SysfsUtils_set_authorized_attribute_always_writes(path, enable, write_ok) ==
    LET val == IF enable THEN "1" ELSE "0"
        err == [ok |-> FALSE, wrote |-> FALSE, path |-> path]
    IN IF ~path.exists THEN err
       ELSE IF path.subsystem # "thunderbolt" THEN err
       ELSE IF path.authorized = "nofile" THEN [ok |-> TRUE, wrote |-> FALSE, path |-> path]
       ELSE IF path.authorized = "unreadable" THEN err
       ELSE IF write_ok
         THEN [ok |-> TRUE, wrote |-> TRUE, path |-> [path EXCEPT !.authorized = val]]
         ELSE err

\* SysfsUtils::set_authorized_attribute(devpath, enable), with whether the
\* operating system lets fs::write succeed: the result, whether the attribute
\* was written, and the path afterwards
SysfsUtils_set_authorized_attribute(path, enable, write_ok) ==
    LET val == IF enable THEN "1" ELSE "0"
        err == [ok |-> FALSE, wrote |-> FALSE, path |-> path]
    IN IF ~path.exists THEN err
       ELSE IF path.subsystem = "unreadable" THEN err
       ELSE IF path.subsystem # "thunderbolt" THEN err
       ELSE IF path.authorized = "nofile" THEN [ok |-> TRUE, wrote |-> FALSE, path |-> path]
       ELSE IF path.authorized = "unreadable" THEN err
       ELSE IF path.authorized = val THEN [ok |-> TRUE, wrote |-> FALSE, path |-> path]
       ELSE IF write_ok
         THEN [ok |-> TRUE, wrote |-> TRUE, path |-> [path EXCEPT !.authorized = val]]
         ELSE err

\* the path of a thunderbolt device of the machine whose authorized attribute
\* starts with cur ("absent": the device is gone)
TbtDevPath(cur) ==
    IF cur = "absent" THEN NoDevPath
    ELSE [exists |-> TRUE, subsystem |-> "thunderbolt", authorized |-> cur]

\* SysfsUtils::set_authorized_attribute on the path of a thunderbolt device of
\* the machine: the result and the attribute afterwards
set_authorized_attribute(cur, enable, write_ok) ==
    LET r == SysfsUtils_set_authorized_attribute(TbtDevPath(cur), enable, write_ok)
    IN [ok |-> r.ok, val |-> IF cur = "absent" THEN cur ELSE r.path.authorized]

\* the directories under sys/bus/thunderbolt/devices
TbtPresent(t) == {d \in TbtDevices : t[d] # "absent"}

\* SysfsUtils::authorize_all_devices; the order of the writes (by link target)
\* does not show in the attributes afterwards
authorize_all_devices(t, p, io) ==
    IF ~io.tbt_dir_ok THEN [ok |-> FALSE, tbt |-> t, pci |-> p]
    ELSE LET r(d) == set_authorized_attribute(t[d], TRUE, d \notin io.write_fail)
         IN [ok |-> \A d \in TbtPresent(t) : r(d).ok,
             tbt |-> [d \in TbtDevices |-> IF d \in TbtPresent(t) THEN r(d).val ELSE t[d]],
             pci |-> p]

\* the first loop of deauthorize_all_devices: 1 is written to the remove
\* attribute of every PCI device whose removable attribute is 1
RemoveRemovable(p, io) ==
    [d \in PciDevices |->
       IF p[d] = "removable" /\ d \notin io.remove_fail THEN "removed" ELSE p[d]]

\* a deauthorization that leaves the PCI devices alone
deauthorize_all_devices_tbt_only(t, p, io) ==
    IF ~io.tbt_dir_ok THEN [ok |-> FALSE, tbt |-> t, pci |-> p]
    ELSE LET r(d) == set_authorized_attribute(t[d], FALSE, d \notin io.write_fail)
         IN [ok |-> \A d \in TbtPresent(t) : r(d).ok,
             tbt |-> [d \in TbtDevices |-> IF d \in TbtPresent(t) THEN r(d).val ELSE t[d]],
             pci |-> p]

\* SysfsUtils::deauthorize_all_devices
deauthorize_all_devices(t, p, io) ==
    IF ~io.pci_dir_ok THEN [ok |-> FALSE, tbt |-> t, pci |-> p]
    ELSE LET p2 == RemoveRemovable(p, io)
             removed_ok == \A d \in PciDevices : p[d] = "removable" => p2[d] = "removed"
             r(d) == set_authorized_attribute(t[d], FALSE, d \notin io.write_fail)
         IN IF ~io.tbt_dir_ok THEN [ok |-> FALSE, tbt |-> t, pci |-> p2]
            ELSE [ok |-> removed_ok /\ \A d \in TbtPresent(t) : r(d).ok,
                  tbt |-> [d \in TbtDevices |->
                             IF d \in TbtPresent(t) THEN r(d).val ELSE t[d]],
                  pci |-> p2]

\* no policy event handled yet
NoPciEvent == [ev |-> Shutdown, old |-> "Disabled", bulk |-> "none", ok |-> TRUE]

\* PciAuthorizer::new: the default policy, its state, an empty channel, the
\* task spawned
PciAuthorizerNew ==
    /\ policy_data = PolicySourceData_new
    /\ issued = PolicySourceData_new
    /\ current_pci_auth_state = calculate_auth_state(PolicySourceData_new)
    /\ taskPc = "run"
    /\ event_channel = <<>>
    /\ authorizerPc = "alive"
    /\ uevents = {}
    /\ pciLast = NoPciEvent

\* no call of set_authorized_attribute followed on its own
NoAttrCalls ==
    /\ devpath = NoDevPath
    /\ attr_calls = <<>>

\* a machine without thunderbolt devices and with built-in PCI devices only
SysfsEmpty ==
    /\ tbt = [d \in TbtDevices |-> "absent"]
    /\ pci = [d \in PciDevices |-> "fixed"]

(***************************************************************************)
(* Maps (BTreeMap).                                                        *)
(***************************************************************************)
MapInsert(map, k, v) == [x \in DOMAIN map \cup {k} |-> IF x = k THEN v ELSE map[x]]
MapRemove(map, k) == [x \in DOMAIN map \ {k} |-> map[x]]
EmptyMap == [x \in {} |-> 0]

Min(S) == CHOOSE x \in S : \A y \in S : x <= y

\* the keys from the greatest to the least
RECURSIVE SortedKeys_descending(_)
SortedKeys_descending(S) ==
    IF S = {} THEN <<>>
    ELSE LET mx == CHOOSE x \in S : \A y \in S : y <= x
         IN <<mx>> \o SortedKeys_descending(S \ {mx})

\* the keys of a BTreeMap in iteration order
RECURSIVE SortedKeys(_)
SortedKeys(S) == IF S = {} THEN <<>> ELSE <<Min(S)>> \o SortedKeys(S \ {Min(S)})

(***************************************************************************)
(* Events a handler makes: loader calls, foreign entry points, outbound    *)
(* calls to the orchestrator.                                              *)
(***************************************************************************)
EvCreateNamespace(name) == [e |-> "android_create_namespace", name |-> name]
EvDlopen(lib) == [e |-> "dlopen", lib |-> lib]
EvDlclose(lib) == [e |-> "dlclose", lib |-> lib]
EvCreateFunc(lib) == [e |-> "create_func", lib |-> lib]
EvOnBind(lib, intent, action, data, ret) ==
    [e |-> "onBind", lib |-> lib, intent |-> intent, action |-> action, data |-> data,
     ret |-> ret]
EvOnUnbind(lib, intent, ret) ==
    [e |-> "onUnbind", lib |-> lib, intent |-> intent, ret |-> ret]
EvOnRebind(lib, intent) == [e |-> "onRebind", lib |-> lib, intent |-> intent]
EvOnDestroy(lib) == [e |-> "onDestroy", lib |-> lib]
EvOnTrimMemory(lib, level) == [e |-> "onTrimMemory", lib |-> lib, level |-> level]
EvServiceDoneExecuting(token, reason) ==
    [e |-> "serviceDoneExecuting", token |-> token, reason |-> reason]
\* publishService with its two SpIBinder arguments in the wrong order
EvPublishService_swapped(token, bind_token, binder) ==
    [e |-> "publishService", token |-> bind_token, bind_token |-> token, binder |-> binder]

EvPublishService(token, bind_token, binder) ==
    [e |-> "publishService", token |-> token, bind_token |-> bind_token, binder |-> binder]
EvUnbindFinished(token, bind_token) ==
    [e |-> "unbindFinished", token |-> token, bind_token |-> bind_token]
\* finishAttachApplication without the start sequence
EvFinishAttachApplication_no_seq(seq) == [e |-> "finishAttachApplication", seq |-> 0]
EvFinishAttachApplication(seq) == [e |-> "finishAttachApplication", seq |-> seq]

ForeignEntryPoints == AllCallbacks
OutboundCalls ==
    {"serviceDoneExecuting", "publishService", "unbindFinished", "finishAttachApplication"}

\* the result of a handler: Ok or Err, the manager's fields after it, its events
Result(ok, svcs, ps, ser, opn, events) ==
    [ok |-> ok, services |-> svcs, process_state |-> ps, serial |-> ser,
     opened |-> opn, events |-> events]

(***************************************************************************)
(* Module loader (library_loader.rs).                                      *)
(***************************************************************************)
\* u32::checked_add(1)
checked_add_1(ser) ==
    IF ser.lo < U16_MAX
      THEN [some |-> TRUE, v |-> [hi |-> ser.hi, lo |-> ser.lo + 1]]
      ELSE IF ser.hi < U16_MAX
             THEN [some |-> TRUE, v |-> [hi |-> ser.hi + 1, lo |-> 0]]
             ELSE [some |-> FALSE, v |-> ser]

\* NamespaceFactory::new
SerialZero == [hi |-> 0, lo |-> 0]

\* NamespaceFactory::create_linker_namespace: the name carries the serial; the
\* serial advances only after android_create_namespace succeeded
create_linker_namespace(ser, os_ok) ==
    IF ~os_ok
      THEN [ok |-> FALSE, serial |-> ser, events |-> <<>>]
      ELSE LET new_serial == checked_add_1(ser) IN
           IF new_serial.some
             THEN [ok |-> TRUE, serial |-> new_serial.v,
                   events |-> <<EvCreateNamespace(ser)>>]
             ELSE [ok |-> FALSE, serial |-> ser, events |-> <<EvCreateNamespace(ser)>>]

\* LoadedLibrary::new: android_dlopen_ext in the namespace; a new handle on success
LoadedLibrary_new(opn, os_ok) ==
    IF os_ok
      THEN [ok |-> TRUE, opened |-> opn + 1, lib |-> opn + 1, events |-> <<EvDlopen(opn + 1)>>]
      ELSE [ok |-> FALSE, opened |-> opn, lib |-> 0, events |-> <<>>]

\* impl Drop for LoadedLibrary
LoadedLibrary_drop(lib) == <<EvDlclose(lib)>>

\* dropping a NativeService drops its fields: only _library has a destructor
NativeService_drop(svc) == LoadedLibrary_drop(svc.library)

(***************************************************************************)
(* Lifecycle manager (native_activity_thread.rs).  m is the manager's      *)
(* fields, req the task's request, env the answers of the OS loader, of    *)
(* the hosted module and of the orchestrator during the handler.           *)
(***************************************************************************)
Fail(m, events) ==
    Result(FALSE, m.services, m.process_state, m.serial, m.opened, events)

\* self.services.insert(token, service): the value the key mapped to is returned
\* and dropped at once
ServicesInsert(svcs, token, svc) ==
    [services |-> MapInsert(svcs, token, svc),
     events |-> IF token \in DOMAIN svcs THEN NativeService_drop(svcs[token]) ELSE <<>>]

\* the entry point taken as found whatever dlsym answers
find_symbol_unchecked(os_ok) == TRUE

\* library.find_symbol(base_symbol_name)?: dlsym's null answer is an error
find_symbol(os_ok) == os_ok

handle_create_service_request(m, req, env) ==
    LET ns == create_linker_namespace(m.serial, env.load # "ns_fail")
        m1 == [m EXCEPT !.serial = ns.serial]
    IN
    IF ~ns.ok THEN Fail(m1, ns.events) ELSE
    LET ld == LoadedLibrary_new(m.opened, env.load # "open_fail")
        m2 == [m1 EXCEPT !.opened = ld.opened]
        ev2 == ns.events \o ld.events
    IN
    IF ~ld.ok THEN Fail(m2, ev2) ELSE
    IF ~find_symbol(env.load # "sym_fail") THEN Fail(m2, ev2 \o LoadedLibrary_drop(ld.lib)) ELSE
    LET service == [namespace |-> m.serial, library |-> ld.lib, callbacks |-> env.callbacks]
        ev3 == ev2 \o <<EvCreateFunc(ld.lib)>>
                   \o <<EvServiceDoneExecuting(req.service_token, "ANON")>>
    IN
    IF ~env.ack_ok THEN Fail(m2, ev3 \o NativeService_drop(service)) ELSE
    LET ins == ServicesInsert(m.services, req.service_token, service)
    IN Result(TRUE, ins.services, m.process_state, m2.serial, m2.opened, ev3 \o ins.events)

\* a lookup that leaves the entry in the table
ServicesRemove_keeps_entry(svcs, token) ==
    [found |-> token \in DOMAIN svcs, services |-> svcs]

\* self.services.remove(&token): the entry, if any, is taken out of the table
ServicesRemove(svcs, token) ==
    [found |-> token \in DOMAIN svcs, services |-> MapRemove(svcs, token)]

\* the service dropped, and its library closed, before onDestroy is called
handle_destroy_unloads_first(m, req, env) ==
    LET rm == ServicesRemove(m.services, req.service_token) IN
    IF ~rm.found THEN Fail(m, <<>>) ELSE
    LET service == m.services[req.service_token]
        ev1 == NativeService_drop(service)
               \o (IF "onDestroy" \in service.callbacks
                     THEN <<EvOnDestroy(service.library)>> ELSE <<>>)
               \o <<EvServiceDoneExecuting(req.service_token, "STOP")>>
    IN Result(env.ack_ok, rm.services, m.process_state, m.serial, m.opened, ev1)

\* a destroy of an unknown token reported as done
handle_destroy_missing_is_done(m, req, env) ==
    LET rm == ServicesRemove(m.services, req.service_token) IN
    IF ~rm.found
      THEN Result(env.ack_ok, m.services, m.process_state, m.serial, m.opened,
                  <<EvServiceDoneExecuting(req.service_token, "STOP")>>)
      ELSE
    LET service == m.services[req.service_token]
        ev1 == (IF "onDestroy" \in service.callbacks
                  THEN <<EvOnDestroy(service.library)>> ELSE <<>>)
               \o <<EvServiceDoneExecuting(req.service_token, "STOP")>>
               \o NativeService_drop(service)
    IN Result(env.ack_ok, rm.services, m.process_state, m.serial, m.opened, ev1)

handle_destroy_service_request(m, req, env) ==
    LET rm == ServicesRemove(m.services, req.service_token) IN
    IF ~rm.found THEN Fail(m, <<>>) ELSE
    LET service == m.services[req.service_token]
        ev1 == (IF "onDestroy" \in service.callbacks
                  THEN <<EvOnDestroy(service.library)>> ELSE <<>>)
               \o <<EvServiceDoneExecuting(req.service_token, "STOP")>>
               \* `service` goes out of scope on both returns
               \o NativeService_drop(service)
    IN Result(env.ack_ok, rm.services, m.process_state, m.serial, m.opened, ev1)

\* req.action.and_then(|s| CString::new(s).ok()) and as_ptr(): CString::new
\* refuses a string with an interior NUL
CStringPtr(opt) ==
    IF opt.some /\ \A i \in 1..Len(opt.s) : opt.s[i] # 0
      THEN [null |-> FALSE, cstr |-> opt.s]
      ELSE [null |-> TRUE, cstr |-> <<>>]

\* onBind taken as present without looking
HasOnBind_unchecked(service) == TRUE

\* service.service.callbacks.onBind.context("onBind must be implemented")?
HasOnBind(service) == "onBind" \in service.callbacks

\* service_binder_ptr.is_null()
BinderIsNull(ptr) == ptr = "null"

\* a bind that asks for onBind before it looks at rebind
handle_bind_requires_on_bind(m, req, env) ==
    IF req.service_token \notin DOMAIN m.services THEN Fail(m, <<>>) ELSE
    LET service == m.services[req.service_token] IN
    IF ~HasOnBind(service) THEN Fail(m, <<>>) ELSE
    IF ~req.rebind
      THEN LET ev1 == <<EvOnBind(service.library, req.intent_hash,
                                 CStringPtr(req.action), CStringPtr(req.data),
                                 env.binder)>>
           IN
           IF BinderIsNull(env.binder) THEN Fail(m, ev1) ELSE
           Result(env.ack_ok, m.services, m.process_state, m.serial, m.opened,
                  ev1 \o <<EvPublishService(req.service_token, req.bind_token, env.binder)>>)
      ELSE LET ev1 == (IF "onRebind" \in service.callbacks
                         THEN <<EvOnRebind(service.library, req.intent_hash)>> ELSE <<>>)
                      \o <<EvServiceDoneExecuting(req.service_token, "REBIND")>>
           IN Result(env.ack_ok, m.services, m.process_state, m.serial, m.opened, ev1)

handle_bind_service_request(m, req, env) ==
    IF req.service_token \notin DOMAIN m.services THEN Fail(m, <<>>) ELSE
    LET service == m.services[req.service_token] IN
    IF ~req.rebind
      THEN IF ~HasOnBind(service) THEN Fail(m, <<>>) ELSE
           LET ev1 == <<EvOnBind(service.library, req.intent_hash,
                                 CStringPtr(req.action), CStringPtr(req.data),
                                 env.binder)>>
           IN
           IF BinderIsNull(env.binder) THEN Fail(m, ev1) ELSE
           Result(env.ack_ok, m.services, m.process_state, m.serial, m.opened,
                  ev1 \o <<EvPublishService(req.service_token, req.bind_token, env.binder)>>)
      ELSE LET ev1 == (IF "onRebind" \in service.callbacks
                         THEN <<EvOnRebind(service.library, req.intent_hash)>> ELSE <<>>)
                      \o <<EvServiceDoneExecuting(req.service_token, "REBIND")>>
           IN Result(env.ack_ok, m.services, m.process_state, m.serial, m.opened, ev1)

\* an unbind that takes an unknown token for a service without onUnbind
handle_unbind_no_lookup(m, req, env) ==
    LET known == req.service_token \in DOMAIN m.services
        has == known /\ "onUnbind" \in m.services[req.service_token].callbacks
        request_on_rebind == IF has THEN env.wants_rebind ELSE FALSE
        ev1 == (IF has
                  THEN <<EvOnUnbind(m.services[req.service_token].library,
                                    req.intent_hash, env.wants_rebind)>>
                  ELSE <<>>)
               \o (IF request_on_rebind
                     THEN <<EvUnbindFinished(req.service_token, req.bind_token)>>
                     ELSE <<EvServiceDoneExecuting(req.service_token, "UNBIND")>>)
    IN Result(env.ack_ok, m.services, m.process_state, m.serial, m.opened, ev1)

\* the answer of the module taken without asking whether it has an onUnbind
RequestOnRebind_unconditional(has_on_unbind, returned) == returned

\* let request_on_rebind = if let Some(on_unbind) = ..onUnbind { on_unbind(..) }
\* else { false }
RequestOnRebind(has_on_unbind, returned) == IF has_on_unbind THEN returned ELSE FALSE

handle_unbind_service_request(m, req, env) ==
    IF req.service_token \notin DOMAIN m.services THEN Fail(m, <<>>) ELSE
    LET service == m.services[req.service_token]
        has == "onUnbind" \in service.callbacks
        request_on_rebind == RequestOnRebind(has, env.wants_rebind)
        ev1 == (IF has THEN <<EvOnUnbind(service.library, req.intent_hash, env.wants_rebind)>> ELSE <<>>)
               \o (IF request_on_rebind
                     THEN <<EvUnbindFinished(req.service_token, req.bind_token)>>
                     ELSE <<EvServiceDoneExecuting(req.service_token, "UNBIND")>>)
    IN Result(env.ack_ok, m.services, m.process_state, m.serial, m.opened, ev1)

\* for service in self.services.values_mut(): onTrimMemory of those that have one
RECURSIVE TrimCalls(_, _, _)
TrimCalls(svcs, keys, level) ==
    IF keys = <<>> THEN <<>> ELSE
    (IF "onTrimMemory" \in svcs[Head(keys)].callbacks
       THEN <<EvOnTrimMemory(svcs[Head(keys)].library, level)>> ELSE <<>>)
    \o TrimCalls(svcs, Tail(keys), level)

\* every level taken as one the host forwards
UnexpectedLevel_none(level) == FALSE

\* level != ..._TRIM_MEMORY_BACKGROUND && level != ..._TRIM_MEMORY_UI_HIDDEN
UnexpectedLevel(level) ==
    level # TRIM_MEMORY_BACKGROUND /\ level # TRIM_MEMORY_UI_HIDDEN

\* the background trim held back only in a state that has been set
TrimSuppressed_known_only(ps, level) ==
    /\ ps # PROCESS_STATE_UNKNOWN
    /\ ps <= PROCESS_STATE_IMPORTANT_FOREGROUND
    /\ level = TRIM_MEMORY_BACKGROUND

\* the background trim held back only strictly above important-foreground
TrimSuppressed_strict(ps, level) ==
    ps < PROCESS_STATE_IMPORTANT_FOREGROUND /\ level = TRIM_MEMORY_BACKGROUND

\* self.process_state <= ProcessStateEnum::IMPORTANT_FOREGROUND.0
\*     && level == ..._TRIM_MEMORY_BACKGROUND
TrimSuppressed(ps, level) ==
    ps <= PROCESS_STATE_IMPORTANT_FOREGROUND /\ level = TRIM_MEMORY_BACKGROUND

\* a trim that also empties the table
handle_trim_memory_clears(m, level) ==
    Result(TRUE, EmptyMap, m.process_state, m.serial, m.opened, <<>>)

handle_trim_memory_request(m, level) ==
    IF UnexpectedLevel(level)
      THEN Fail(m, <<>>)
      ELSE IF TrimSuppressed(m.process_state, level)
             THEN Result(TRUE, m.services, m.process_state, m.serial, m.opened, <<>>)
             ELSE Result(TRUE, m.services, m.process_state, m.serial, m.opened,
                         TrimCalls(m.services, SortedKeys(DOMAIN m.services), level))

handle_bind_application_request(m, env) ==
    Result(env.ack_ok, m.services, m.process_state, m.serial, m.opened,
           <<EvFinishAttachApplication(StartSeq)>>)

\* a state that is recorded only while none has been recorded
handle_set_process_state_once(m, state) ==
    Result(TRUE, m.services,
           IF m.process_state = PROCESS_STATE_UNKNOWN THEN state ELSE m.process_state,
           m.serial, m.opened, <<>>)

\* self.process_state = state
handle_set_process_state(m, state) ==
    Result(TRUE, m.services, state, m.serial, m.opened, <<>>)

\* impl HandlerCallback for NativeActivityThread
handle_task(m, task, env) ==
    CASE task.kind = "CreateService" -> handle_create_service_request(m, task, env)
      [] task.kind = "DestroyService" -> handle_destroy_service_request(m, task, env)
      [] task.kind = "BindService" -> handle_bind_service_request(m, task, env)
      [] task.kind = "UnbindService" -> handle_unbind_service_request(m, task, env)
      [] task.kind = "TrimMemory" -> handle_trim_memory_request(m, task.level)
      [] task.kind = "BindApplication" -> handle_bind_application_request(m, env)
      [] task.kind = "SetProcessState" -> handle_set_process_state(m, task.state)

(***************************************************************************)
(* Tasks (NativeApplicationThreadRequest) and the answers of the           *)
(* environment a handler can meet.                                         *)
(***************************************************************************)
\* the process state the orchestrator sends along with a create or a bind
\* (CreateServiceRequest::_process_state, BindServiceRequest::_process_state)
ProcessStateHints == {PROCESS_STATE_TOP, PROCESS_STATE_IMPORTANT_BACKGROUND}

CreateTasks ==
    [kind : {"CreateService"}, service_token : ServiceTokens,
     process_state_hint : ProcessStateHints]
DestroyTasks == [kind : {"DestroyService"}, service_token : ServiceTokens]
BindTasks ==
    [kind : {"BindService"}, service_token : ServiceTokens, bind_token : BindTokens,
     intent_hash : IntentHashes, action : OptStrings, data : OptStrings, rebind : BOOLEAN,
     process_state_hint : ProcessStateHints]
UnbindTasks ==
    [kind : {"UnbindService"}, service_token : ServiceTokens, bind_token : BindTokens,
     intent_hash : IntentHashes]
TrimTasks ==
    [kind : {"TrimMemory"},
     level : {TRIM_MEMORY_UI_HIDDEN, TRIM_MEMORY_BACKGROUND, TRIM_MEMORY_OTHER}]
BindApplicationTasks == [kind : {"BindApplication"}]
SetProcessStateTasks ==
    [kind : {"SetProcessState"},
     state : {PROCESS_STATE_UNKNOWN, PROCESS_STATE_TOP, PROCESS_STATE_IMPORTANT_FOREGROUND,
              PROCESS_STATE_IMPORTANT_BACKGROUND}]

\* every task handle_task can be given
Tasks ==
    CreateTasks \cup DestroyTasks \cup BindTasks \cup UnbindTasks \cup TrimTasks
    \cup BindApplicationTasks \cup SetProcessStateTasks

NoTask == [kind |-> "none"]

DefaultEnv ==
    [load |-> "ok", callbacks |-> {}, binder |-> "binder", wants_rebind |-> FALSE,
     ack_ok |-> TRUE]

\* load: whether android_create_namespace, android_dlopen_ext and dlsym succeed;
\* callbacks: what the module's creation function fills in; binder: what onBind
\* returns; wants_rebind: what onUnbind returns; ack_ok: whether the outbound call
\* to the orchestrator succeeds
EnvFor(task) ==
    CASE task.kind = "CreateService" ->
           {[DefaultEnv EXCEPT !.load = l] : l \in {"ns_fail", "open_fail", "sym_fail"}}
           \cup {[DefaultEnv EXCEPT !.callbacks = c, !.ack_ok = a] :
                   c \in CallbackSets, a \in BOOLEAN}
      [] task.kind = "BindService" ->
           IF task.rebind
             THEN {[DefaultEnv EXCEPT !.ack_ok = a] : a \in BOOLEAN}
             ELSE {[DefaultEnv EXCEPT !.binder = b, !.ack_ok = a] :
                     b \in BinderPtrs, a \in BOOLEAN}
      [] task.kind = "UnbindService" ->
           {[DefaultEnv EXCEPT !.wants_rebind = w, !.ack_ok = a] :
              w \in BOOLEAN, a \in BOOLEAN}
      [] task.kind \in {"DestroyService", "BindApplication"} ->
           {[DefaultEnv EXCEPT !.ack_ok = a] : a \in BOOLEAN}
      [] OTHER -> {DefaultEnv}

(***************************************************************************)
(* Task handoff (task.rs).                                                 *)
(***************************************************************************)
\* mpsc::Sender::send: the task goes to the back of the channel
ChannelSend(q, item) == Append(q, item)

\* try_recv taking the newest task instead of the oldest
TryRecv_newest_first(q) == [item |-> q[Len(q)], rest |-> SubSeq(q, 1, Len(q) - 1)]

\* mpsc::Receiver::try_recv on a channel that is not empty
TryRecv(q) == [item |-> Head(q), rest |-> Tail(q)]

\* libc::eventfd_write(fd, 1)
eventfd_write(counter) == counter + 1

\* libc::eventfd_read on a counter that is not zero (no EFD_SEMAPHORE)
eventfd_read(counter) == 0

\* handle_tasks returning to the looper after one task
AfterTaskOk_one_task_per_wake == "poll"

\* HandlerInner::handle_tasks after handle_task returned Ok: the loop goes on
AfterTaskOk == "drain"

\* handle_tasks logging the error and going on with the next task
AfterTaskErr_keep_draining == "drain"

\* Handler::poll_callback after handle_tasks returned Err: panic
AfterTaskErr == "halted"

Mgr ==
    [services |-> services, process_state |-> process_state, serial |-> serial,
     opened |-> opened]

ClosedBy(events) ==
    {events[i].lib : i \in {j \in 1..Len(events) : events[j].e = "dlclose"}}

\* the tokens created and not yet destroyed, after one more task
LiveAfter(tokens, task) ==
    CASE task.kind = "CreateService" -> tokens \cup {task.service_token}
      [] task.kind = "DestroyService" -> tokens \ {task.service_token}
      [] OTHER -> tokens

NoCreate == [some |-> FALSE, token |-> 0, before |-> EmptyMap, library |-> 0]

\* the latest call, when it was a CreateService that returned Ok
CreateRecord ==
    IF lastTask.kind = "CreateService" /\ lastOk
      THEN [some |-> TRUE, token |-> lastTask.service_token, before |-> prev.services,
            library |-> services[lastTask.service_token].library]
      ELSE NoCreate

\* the names of the android_create_namespace calls among the events, in order
RECURSIVE NamesRegistered(_)
NamesRegistered(events) ==
    IF events = <<>> THEN <<>> ELSE
    (IF Head(events).e = "android_create_namespace" THEN <<Head(events).name>> ELSE <<>>)
    \o NamesRegistered(Tail(events))

\* one call of callback.handle_task(task) on the owner thread
Dispatch(task, env) ==
    LET r == handle_task(Mgr, task, env) IN
    /\ services' = r.services
    /\ process_state' = r.process_state
    /\ serial' = r.serial
    /\ opened' = r.opened
    /\ closed' = closed \cup ClosedBy(r.events)
    /\ live' = LiveAfter(live, task)
    /\ lastTask' = task
    /\ lastEnv' = env
    /\ lastOk' = r.ok
    /\ lastEvents' = r.events
    /\ prev' = [services |-> services, process_state |-> process_state, closed |-> closed]
    /\ lastCreate' = IF lastTask = NoTask THEN lastCreate ELSE CreateRecord
    /\ nsLog' = nsLog \o NamesRegistered(r.events)
    /\ ownerPc' = IF r.ok THEN AfterTaskOk ELSE AfterTaskErr
    /\ UNCHANGED pciVars

NoPrev == [services |-> EmptyMap, process_state |-> PROCESS_STATE_UNKNOWN, closed |-> {}]

NoCall ==
    [send |-> "none", reply |-> "none", alive |-> TRUE, enqueued |-> FALSE,
     wake |-> "not_called"]

Init ==
    /\ services = EmptyMap
    /\ process_state = PROCESS_STATE_UNKNOWN
    /\ serial = SerialZero
    /\ opened = 0
    /\ closed = {}
    /\ queue = <<>>
    /\ efd = 0
    /\ senderPc = [s \in Senders |-> "idle"]
    /\ ownerPc = "poll"
    /\ sent = <<>>
    /\ dispatched = <<>>
    /\ live = {}
    /\ lastTask = NoTask
    /\ lastEnv = DefaultEnv
    /\ lastOk = TRUE
    /\ lastEvents = <<>>
    /\ prev = NoPrev
    /\ lastCreate = NoCreate
    /\ nsLog = <<>>
    /\ lastCall = NoCall
    /\ PciAuthorizerNew
    /\ SysfsEmpty
    /\ NoAttrCalls

(***************************************************************************)
(* The endpoint (impl INativeApplicationThread for NativeApplicationThread):*)
(* the request each remote method builds from its arguments and sends.  The *)
(* library paths and names of a create, and the process state and bind     *)
(* sequence the methods also pass on, are read by no handler.              *)
(***************************************************************************)
scheduleCreateService(service_token, hint) ==
    [kind |-> "CreateService", service_token |-> service_token,
     process_state_hint |-> hint]

scheduleDestroyService(service_token) ==
    [kind |-> "DestroyService", service_token |-> service_token]

\* action.map(|s| s.to_string()), data.map(|s| s.to_string())
scheduleBindService(service_token, bind_token, intent_hash, action, data, rebind, hint) ==
    [kind |-> "BindService", service_token |-> service_token, bind_token |-> bind_token,
     intent_hash |-> intent_hash,
     action |-> IF action.some THEN Some(action.s) ELSE None,
     data |-> IF data.some THEN Some(data.s) ELSE None,
     rebind |-> rebind,
     process_state_hint |-> hint]

scheduleUnbindService(service_token, bind_token, intent_hash) ==
    [kind |-> "UnbindService", service_token |-> service_token, bind_token |-> bind_token,
     intent_hash |-> intent_hash]

scheduleTrimMemory(level) == [kind |-> "TrimMemory", level |-> level]

bindApplication == [kind |-> "BindApplication"]

\* every request a remote method of the endpoint can send
EndpointRequests ==
    {scheduleCreateService(t, h) : t \in ServiceTokens, h \in ProcessStateHints}
    \cup {scheduleDestroyService(t) : t \in ServiceTokens}
    \cup {scheduleBindService(t, b, i, a, d, r, h) :
            t \in ServiceTokens, b \in BindTokens, i \in IntentHashes,
            a \in OptStrings, d \in OptStrings, r \in BOOLEAN, h \in ProcessStateHints}
    \cup {scheduleUnbindService(t, b, i) :
            t \in ServiceTokens, b \in BindTokens, i \in IntentHashes}
    \cup {scheduleTrimMemory(l) :
            l \in {TRIM_MEMORY_UI_HIDDEN, TRIM_MEMORY_BACKGROUND, TRIM_MEMORY_OTHER}}
    \cup {bindApplication}

\* the remote calls the binder threads make in the handoff specification
EndpointTasks ==
    {scheduleCreateService(1, PROCESS_STATE_TOP), scheduleDestroyService(1)}
    \cup {scheduleBindService(1, b, 7, None, None, FALSE, PROCESS_STATE_TOP) :
            b \in BindTokens}

\* the Handler, and with it the Receiver of the channel, has not been dropped
HandlerAlive == ownerPc # "gone"

\* a send that the channel refuses although its Receiver is there
tx_send_refused(receiver_alive) == FALSE

\* mpsc::Sender::send: Err exactly when the Receiver has been dropped
tx_send(receiver_alive) == receiver_alive

\* a remote call that answers Ok whatever send returned
EndpointReply_ignores_error(send_ok) == "ok"

\* self.sender.send(..).map_err(|e| Status::new_exception_str(SERVICE_SPECIFIC, ..))?;
\* Ok(())
EndpointReply(send_ok) == IF send_ok THEN "ok" ELSE "err"

\* a remote call that runs the handler on the binder thread it arrived on
Send_runs_on_caller(s, task) ==
    /\ senderPc[s] = "idle"
    /\ tx_send(HandlerAlive)
    /\ Len(sent) < MaxSends
    /\ ownerPc # "halted"
    /\ sent' = Append(sent, task)
    /\ \E env \in EnvFor(task) :
         /\ Dispatch(task, env)
         /\ dispatched' = Append(dispatched, [id |-> Len(sent) + 1, task |-> task,
                                              ok |-> lastOk'])
    /\ lastCall' = [send |-> "ok", reply |-> "ok", alive |-> HandlerAlive,
                    enqueued |-> FALSE, wake |-> "not_called"]
    /\ UNCHANGED <<queue, efd, senderPc>>

\* Sender::send, first half: self.tx.send(task)
Send(s, task) ==
    /\ senderPc[s] = "idle"
    /\ tx_send(HandlerAlive)
    /\ Len(sent) < MaxSends
    /\ queue' = ChannelSend(queue, [id |-> Len(sent) + 1, task |-> task])
    /\ sent' = Append(sent, task)
    /\ senderPc' = [senderPc EXCEPT ![s] = "wake"]
    /\ UNCHANGED pciVars
    /\ UNCHANGED <<services, process_state, serial, opened, closed, efd, ownerPc,
                   dispatched, live, lastTask, lastEnv, lastOk, lastEvents, prev,
                   lastCreate, nsLog, lastCall>>

\* Sender::send, second half: self.wake()
Wake(s) ==
    /\ senderPc[s] = "wake"
    /\ efd' = eventfd_write(efd)
    /\ senderPc' = [senderPc EXCEPT ![s] = "idle"]
    \* tx.send returned Ok, which it does only with the Receiver there
    /\ lastCall' = [send |-> "ok", reply |-> EndpointReply(TRUE), alive |-> TRUE,
                    enqueued |-> TRUE, wake |-> "ok"]
    /\ UNCHANGED pciVars
    /\ UNCHANGED <<services, process_state, serial, opened, closed, queue, ownerPc,
                   sent, dispatched, live, lastTask, lastEnv, lastOk, lastEvents, prev,
                   lastCreate, nsLog>>

\* ALooper_pollOnce sees the eventfd readable and calls poll_callback, which
\* reads the eventfd before it drains
PollCallback ==
    /\ ownerPc = "poll"
    /\ efd > 0
    /\ efd' = eventfd_read(efd)
    /\ ownerPc' = "drain"
    /\ UNCHANGED pciVars
    /\ UNCHANGED <<services, process_state, serial, opened, closed, queue, senderPc,
                   sent, dispatched, live, lastTask, lastEnv, lastOk, lastEvents, prev,
                   lastCreate, nsLog, lastCall>>

\* handle_tasks, one turn of its loop with a task in the channel
HandleTasksRecv ==
    /\ ownerPc = "drain"
    /\ queue # <<>>
    /\ LET rcv == TryRecv(queue) IN
         /\ queue' = rcv.rest
         /\ \E env \in EnvFor(rcv.item.task) :
              /\ Dispatch(rcv.item.task, env)
              /\ dispatched' = Append(dispatched, [id |-> rcv.item.id, task |-> rcv.item.task,
                                                   ok |-> lastOk'])
    /\ UNCHANGED <<efd, senderPc, sent, lastCall>>

\* handle_tasks taking an empty channel for a failure
HandleTasksEmpty_panics ==
    /\ ownerPc = "drain"
    /\ queue = <<>>
    /\ ownerPc' = "halted"
    /\ UNCHANGED pciVars
    /\ UNCHANGED <<services, process_state, serial, opened, closed, queue, efd, senderPc,
                   sent, dispatched, live, lastTask, lastEnv, lastOk, lastEvents, prev,
                   lastCreate, nsLog, lastCall>>

\* handle_tasks returning to the looper with tasks still in the channel
HandleTasksEmpty_any_time ==
    /\ ownerPc = "drain"
    /\ ownerPc' = "poll"
    /\ UNCHANGED pciVars
    /\ UNCHANGED <<services, process_state, serial, opened, closed, queue, efd, senderPc,
                   sent, dispatched, live, lastTask, lastEnv, lastOk, lastEvents, prev,
                   lastCreate, nsLog, lastCall>>

\* handle_tasks, try_recv reports Empty: back to the looper
HandleTasksEmpty ==
    /\ ownerPc = "drain"
    /\ queue = <<>>
    /\ ownerPc' = "poll"
    /\ UNCHANGED pciVars
    /\ UNCHANGED <<services, process_state, serial, opened, closed, queue, efd, senderPc,
                   sent, dispatched, live, lastTask, lastEnv, lastOk, lastEvents, prev,
                   lastCreate, nsLog, lastCall>>

Next ==
    \/ \E s \in Senders, task \in EndpointTasks : Send(s, task)
    \/ \E s \in Senders : Wake(s)
    \/ PollCallback
    \/ HandleTasksRecv
    \/ HandleTasksEmpty

\* the endpoint, the handoff and the lifecycle manager together
Spec == Init /\ [][Next]_vars

\* the owner thread keeps polling its looper, and a binder thread that has
\* enqueued a task goes on to write the eventfd
FairSpec ==
    /\ Spec
    /\ WF_vars(PollCallback)
    /\ WF_vars(HandleTasksRecv)
    /\ WF_vars(HandleTasksEmpty)
    /\ \A s \in Senders : WF_vars(Wake(s))

\* Sender::send when tx.send returns Err: the task is dropped with the error, wake
\* is not called, and the remote call returns what it makes of the Err
SendDisconnected(s, task) ==
    /\ senderPc[s] = "idle"
    /\ ~tx_send(HandlerAlive)
    /\ lastCall' = [send |-> "err", reply |-> EndpointReply(FALSE),
                    alive |-> HandlerAlive, enqueued |-> FALSE, wake |-> "not_called"]
    /\ UNCHANGED pciVars
    /\ UNCHANGED <<services, process_state, serial, opened, closed, queue, efd, senderPc,
                   ownerPc, sent, dispatched, live, lastTask, lastEnv, lastOk, lastEvents,
                   prev, lastCreate, nsLog>>

\* Sender::wake when eventfd_write answers an error other than EINTR (EAGAIN of
\* the non-blocking eventfd whose counter is at its maximum): the counter is not
\* incremented, send returns Err although tx.send has put the task in the channel
WakeFails(s) ==
    /\ senderPc[s] = "wake"
    /\ senderPc' = [senderPc EXCEPT ![s] = "idle"]
    /\ lastCall' = [send |-> "err", reply |-> EndpointReply(FALSE), alive |-> TRUE,
                    enqueued |-> TRUE, wake |-> "failed"]
    /\ UNCHANGED pciVars
    /\ UNCHANGED <<services, process_state, serial, opened, closed, queue, efd, ownerPc,
                   sent, dispatched, live, lastTask, lastEnv, lastOk, lastEvents, prev,
                   lastCreate, nsLog>>

\* ALooper_pollOnce returns ALOOPER_POLL_ERROR: run_thread_loop returns Err, the
\* unwrap in run_native_activity_thread panics and the unwinding drops the
\* Handler, its Receiver and the tasks still in the channel; the binder threads
\* keep their Sender
HandlerDropped ==
    /\ ownerPc = "poll"
    /\ ownerPc' = "gone"
    /\ queue' = <<>>
    /\ UNCHANGED pciVars
    /\ UNCHANGED <<services, process_state, serial, opened, closed, efd, senderPc,
                   sent, dispatched, live, lastTask, lastEnv, lastOk, lastEvents, prev,
                   lastCreate, nsLog, lastCall>>

NextTeardown ==
    \/ Next
    \/ \E s \in Senders, task \in EndpointTasks : SendDisconnected(s, task)
    \/ \E s \in Senders : WakeFails(s)
    \/ HandlerDropped

\* the handoff with its failures: the eventfd write may fail and the Handler may
\* be dropped while binder threads still call the endpoint
SpecTeardown == Init /\ [][NextTeardown]_vars

\* u32::MAX
SerialMax == [hi |-> U16_MAX, lo |-> U16_MAX]

\* the values of the serial the runs of the factory start from: a new factory,
\* one about to carry into the upper half, and factories that have created
\* nearly as many namespaces as the u32 counts
StartSerials ==
    {SerialZero, [hi |-> 0, lo |-> U16_MAX - 1]}
    \cup {[hi |-> U16_MAX, lo |-> U16_MAX - d] : d \in 0..MaxNamespaces}

InitNamespaceFactory ==
    /\ services = EmptyMap
    /\ process_state = PROCESS_STATE_UNKNOWN
    /\ serial \in StartSerials
    /\ opened = 0
    /\ closed = {}
    /\ queue = <<>>
    /\ efd = 0
    /\ senderPc = [s \in Senders |-> "idle"]
    /\ ownerPc = "poll"
    /\ sent = <<>>
    /\ dispatched = <<>>
    /\ live = {}
    /\ lastTask = NoTask
    /\ lastEnv = DefaultEnv
    /\ lastOk = TRUE
    /\ lastEvents = <<>>
    /\ prev = NoPrev
    /\ lastCreate = NoCreate
    /\ nsLog = <<>>
    /\ lastCall = NoCall
    /\ PciAuthorizerNew
    /\ SysfsEmpty
    /\ NoAttrCalls

\* one call of NamespaceFactory::create_linker_namespace; os_ok is whether
\* android_create_namespace returns a namespace
CreateLinkerNamespace(os_ok) ==
    LET r == create_linker_namespace(serial, os_ok) IN
    /\ Len(nsLog) < MaxNamespaces
    /\ serial' = r.serial
    /\ nsLog' = nsLog \o NamesRegistered(r.events)
    /\ lastTask' = [kind |-> "create_linker_namespace"]
    /\ lastEnv' = [DefaultEnv EXCEPT !.load = IF os_ok THEN "ok" ELSE "ns_fail"]
    /\ lastOk' = r.ok
    /\ lastEvents' = r.events
    /\ UNCHANGED pciVars
    /\ UNCHANGED <<services, process_state, opened, closed, queue, efd, senderPc, ownerPc,
                   sent, dispatched, live, prev, lastCreate, lastCall>>

NextNamespaceFactory == \E os_ok \in BOOLEAN : CreateLinkerNamespace(os_ok)

\* the namespace factory alone, called again and again, whatever its calls return
SpecNamespaceFactory == InitNamespaceFactory /\ [][NextNamespaceFactory]_vars

\* the lifecycle manager alone: handle_task called on the owner thread with any
\* task, one call after the other
HandleTask(task, env) ==
    /\ ownerPc # "halted"
    /\ lastTask = NoTask
    /\ task.kind = "CreateService" => (serial.hi = 0 /\ serial.lo < MaxLoads)
    /\ Dispatch(task, env)
    /\ UNCHANGED <<queue, efd, senderPc, sent, dispatched, lastCall>>

\* handle_task returned Ok and handle_tasks goes round its loop: the record of
\* the finished call is dropped, the manager's fields stay
TaskReturned ==
    /\ ownerPc # "halted"
    /\ lastTask # NoTask
    /\ lastTask' = NoTask
    /\ lastEnv' = DefaultEnv
    /\ lastOk' = TRUE
    /\ lastEvents' = <<>>
    /\ prev' = NoPrev
    /\ lastCreate' = CreateRecord
    /\ UNCHANGED pciVars
    /\ UNCHANGED <<services, process_state, serial, opened, closed, queue, efd,
                   senderPc, ownerPc, sent, dispatched, live, nsLog, lastCall>>

NextLifecycle ==
    \/ \E task \in Tasks : \E env \in EnvFor(task) : HandleTask(task, env)
    \/ TaskReturned

SpecLifecycle == Init /\ [][NextLifecycle]_vars

(***************************************************************************)
(* Properties of the task handoff.                                         *)
(***************************************************************************)
\* the place of task id in the order of the handle_task calls, 0 if not yet called
DispatchIndex(id) ==
    IF \E k \in 1..Len(dispatched) : dispatched[k].id = id
      THEN CHOOSE k \in 1..Len(dispatched) : dispatched[k].id = id
      ELSE 0

\* C1: whatever the interleaving of the sender threads, the owner thread calls
\* handle_task in exactly the order of the enqueues: the k-th call is for the k-th
\* task sent, the tasks still in the channel follow in that order, and a
\* CreateService is handled before every bind, unbind or destroy of its token
\* that was sent after it.
C1_FifoDispatch ==
    /\ \A k \in 1..Len(dispatched) :
         dispatched[k].id = k /\ dispatched[k].task = sent[k]
    /\ \A j \in 1..Len(queue) :
         queue[j].id = Len(dispatched) + j /\ queue[j].task = sent[queue[j].id]
    /\ \A i \in 1..Len(sent) : \A j \in 1..Len(sent) :
         (/\ i < j
          /\ sent[i].kind = "CreateService"
          /\ sent[j].kind \in {"BindService", "UnbindService", "DestroyService"}
          /\ sent[j].service_token = sent[i].service_token
          /\ DispatchIndex(j) # 0)
         => (DispatchIndex(i) # 0 /\ DispatchIndex(i) < DispatchIndex(j))

\* a create and a bind sent after it have been handled, in that order, while
\* two binder threads are inside send between the enqueue and the wake
C1_Witness ==
    /\ Len(dispatched) >= 2
    /\ dispatched[1].task.kind = "CreateService"
    /\ dispatched[2].task.kind = "BindService"
    /\ dispatched[2].ok
    /\ \E s \in Senders : senderPc[s] = "wake"
    /\ Len(queue) >= 1

\* C2: with the owner thread polling and every sender finishing its send, each
\* task enqueued is handled, unless an earlier task failed and halted the
\* handler: again and again every task sent so far has been handled and none
\* is left in the channel; no task is handled twice.
C2_EveryTaskDispatchedOnce ==
    /\ []<>(\/ ownerPc = "halted"
            \/ /\ queue = <<>>
               /\ \A id \in 1..Len(sent) : DispatchIndex(id) # 0)
    /\ [](\A j \in 1..Len(dispatched) : \A k \in 1..Len(dispatched) :
            dispatched[j].id = dispatched[k].id => j = k)

\* every task sent was handled although a wake signal written after its task
\* had already been drained is still pending
C2_Witness ==
    /\ Len(sent) >= 2
    /\ Len(dispatched) = Len(sent)
    /\ \A k \in 1..Len(dispatched) : dispatched[k].ok
    /\ ownerPc = "poll"
    /\ efd > 0

\* C3: after a handle_task that returned Err there is no further handle_task
\* call, and the handler is halted with whatever is left in the channel.
C3_FailStop ==
    /\ \A k \in 1..Len(dispatched) : ~dispatched[k].ok => k = Len(dispatched)
    /\ (\E k \in 1..Len(dispatched) : ~dispatched[k].ok) => ownerPc = "halted"
    /\ ownerPc = "halted" => (dispatched # <<>> /\ ~dispatched[Len(dispatched)].ok)

\* a task failed, and a task is still in the channel with a wake signal pending
C3_Witness ==
    /\ ownerPc = "halted"
    /\ queue # <<>>
    /\ efd > 0
    /\ Len(dispatched) >= 2

(***************************************************************************)
(* Properties of the lifecycle manager.  They speak of the latest          *)
(* handle_task call: its task, the answers it met, its events in order,    *)
(* and the manager's fields before (prev) and after it.                    *)
(***************************************************************************)
LastKnown == lastTask.service_token \in DOMAIN prev.services
LastService == prev.services[lastTask.service_token]
EventsOfKind(kinds) == {i \in 1..Len(lastEvents) : lastEvents[i].e \in kinds}

\* C4: as long as every command succeeded, the tokens in the HostedService
\* table are exactly those created and not destroyed since.
C4_TableIsCreatedNotDestroyed ==
    ownerPc # "halted" => DOMAIN services = live

\* token 1 was created and destroyed, token 2 was created and is in the table
C4_Witness ==
    /\ lastTask.kind = "DestroyService"
    /\ lastTask.service_token = 1
    /\ lastOk
    /\ live = {2}
    /\ DOMAIN services = {2}
    /\ closed # {}

\* C5: a CreateService for a token that maps to a live service either fails
\* and leaves the old service in place, or replaces it after calling the old
\* service's destroy entry point, before the old service is dropped.
C5_CreateOnLiveToken ==
    (lastTask.kind = "CreateService" /\ LastKnown) =>
       \/ ~lastOk /\ services = prev.services
       \/ /\ lastOk
          /\ "onDestroy" \in LastService.callbacks =>
               \E i \in 1..Len(lastEvents) : \E j \in 1..Len(lastEvents) :
                  /\ i < j
                  /\ lastEvents[i].e = "onDestroy"
                  /\ lastEvents[i].lib = LastService.library
                  /\ lastEvents[j].e = "dlclose"
                  /\ lastEvents[j].lib = LastService.library

\* C6: no entry point of a callback table is called once dlclose has been
\* called on the library that supplied it: not later in the same command, not
\* by a later command, and only services of the table are called; a destroy
\* ends with the dlclose of the library of the service it removed; no library
\* of the table is closed.
C6_NoCallAfterUnload ==
    /\ \A i \in EventsOfKind(ForeignEntryPoints) :
         /\ lastEvents[i].lib \notin prev.closed
         /\ \A j \in EventsOfKind({"dlclose"}) :
              lastEvents[j].lib = lastEvents[i].lib => i < j
         /\ \E t \in DOMAIN prev.services : prev.services[t].library = lastEvents[i].lib
    /\ (lastTask.kind = "DestroyService" /\ LastKnown) =>
         /\ lastEvents # <<>>
         /\ lastEvents[Len(lastEvents)].e = "dlclose"
         /\ lastEvents[Len(lastEvents)].lib = LastService.library
         /\ lastTask.service_token \notin DOMAIN services
    /\ \A t \in DOMAIN services : services[t].library \notin closed

\* a destroy called onDestroy and then closed the library, another service
\* staying in the table
C6_Witness ==
    /\ lastTask.kind = "DestroyService"
    /\ Len(lastEvents) = 3
    /\ lastEvents[1].e = "onDestroy"
    /\ lastEvents[3].e = "dlclose"
    /\ lastEvents[3].lib \in closed
    /\ services # EmptyMap

\* C7: a DestroyService for a token that is not in the table fails, calls no
\* entry point, sends no completion report and leaves the table unchanged.
C7_DestroyUnknownToken ==
    (lastTask.kind = "DestroyService" /\ ~LastKnown) =>
       /\ ~lastOk
       /\ lastEvents = <<>>
       /\ services = prev.services
       /\ closed = prev.closed

\* a destroy of a token that is not in the table, which holds another service
C7_Witness ==
    /\ lastTask.kind = "DestroyService"
    /\ ~LastKnown
    /\ prev.services # EmptyMap
    /\ ownerPc = "halted"

\* C8: a BindService, rebind or not, or an UnbindService for a token that is
\* not in the table fails without any entry point call or outbound call and
\* leaves the table and ProcessState unchanged.
C8_BindUnbindUnknownToken ==
    (lastTask.kind \in {"BindService", "UnbindService"} /\ ~LastKnown) =>
       /\ ~lastOk
       /\ lastEvents = <<>>
       /\ services = prev.services
       /\ process_state = prev.process_state

\* an unbind of a token that is not in the table, which holds another service,
\* after ProcessState was set
C8_Witness ==
    /\ lastTask.kind = "UnbindService"
    /\ ~LastKnown
    /\ prev.services # EmptyMap
    /\ prev.process_state # PROCESS_STATE_UNKNOWN
    /\ ownerPc = "halted"

\* C9: a BindService with rebind = false fails without a publishService call,
\* and the service stays in the table, when the module has no onBind (then
\* nothing at all is called) or when onBind returns the null pointer.
C9_BindWithoutHandleFails ==
    (lastTask.kind = "BindService" /\ ~lastTask.rebind /\ LastKnown) =>
       /\ "onBind" \notin LastService.callbacks =>
            ~lastOk /\ lastEvents = <<>> /\ services = prev.services
       /\ ("onBind" \in LastService.callbacks /\ lastEnv.binder = "null") =>
            /\ ~lastOk
            /\ EventsOfKind(OutboundCalls) = {}
            /\ Len(lastEvents) = 1
            /\ lastEvents[1].e = "onBind"
            /\ services = prev.services

\* onBind was called, returned the null pointer, and the bind failed
C9_Witness ==
    /\ lastTask.kind = "BindService"
    /\ ~lastTask.rebind
    /\ LastKnown
    /\ "onBind" \in LastService.callbacks
    /\ lastEnv.binder = "null"
    /\ ~lastOk
    /\ lastTask.service_token \in DOMAIN services

\* C10: a BindService with rebind = false for a created service whose onBind
\* returns a binder makes exactly two calls: onBind of that service with the
\* task's intent, then publishService with the service token, the task's bind
\* token and the binder returned; no serviceDoneExecuting.
C10_BindPublishes ==
    (/\ lastTask.kind = "BindService"
     /\ ~lastTask.rebind
     /\ LastKnown
     /\ "onBind" \in LastService.callbacks
     /\ lastEnv.binder # "null") =>
       /\ Len(lastEvents) = 2
       /\ lastEvents[1].e = "onBind"
       /\ lastEvents[1].lib = LastService.library
       /\ lastEvents[1].intent = lastTask.intent_hash
       /\ lastEvents[2] = [e |-> "publishService", token |-> lastTask.service_token,
                           bind_token |-> lastTask.bind_token, binder |-> lastEnv.binder]
       /\ lastOk = lastEnv.ack_ok
       /\ services = prev.services

\* a create of the token succeeded earlier, and the bind published the binder
C10_Witness ==
    /\ lastTask.kind = "BindService"
    /\ ~lastTask.rebind
    /\ lastOk
    /\ Len(lastEvents) = 2
    /\ lastEvents[2].e = "publishService"
    /\ lastTask.service_token \in live

SomeServiceTrims(svcs) ==
    \E t \in DOMAIN svcs : "onTrimMemory" \in svcs[t].callbacks

\* C11: a TrimMemory at the background level handled while the process state is
\* important-foreground or a more important one returns Ok and calls no
\* onTrimMemory (no foreign or outbound call at all); the table is untouched.
C11_BackgroundTrimSuppressed ==
    (/\ lastTask.kind = "TrimMemory"
     /\ lastTask.level = TRIM_MEMORY_BACKGROUND
     /\ prev.process_state # PROCESS_STATE_UNKNOWN
     /\ prev.process_state <= PROCESS_STATE_IMPORTANT_FOREGROUND) =>
       /\ lastOk
       /\ lastEvents = <<>>
       /\ services = prev.services
       /\ process_state = prev.process_state

\* a background trim at exactly important-foreground, with a service in the
\* table that has an onTrimMemory to call
C11_Witness ==
    /\ lastTask.kind = "TrimMemory"
    /\ lastTask.level = TRIM_MEMORY_BACKGROUND
    /\ prev.process_state = PROCESS_STATE_IMPORTANT_FOREGROUND
    /\ SomeServiceTrims(prev.services)
    /\ lastOk

\* C12: a TrimMemory whose level is neither background nor UI-hidden returns an
\* error whatever the process state is, and before any foreign call: no
\* onTrimMemory is called and nothing changes.
C12_UnexpectedLevelFails ==
    (/\ lastTask.kind = "TrimMemory"
     /\ lastTask.level \notin {TRIM_MEMORY_BACKGROUND, TRIM_MEMORY_UI_HIDDEN}) =>
       /\ ~lastOk
       /\ lastEvents = <<>>
       /\ services = prev.services
       /\ process_state = prev.process_state

\* the unexpected level arrives in a state where a valid level would have
\* reached an onTrimMemory
C12_Witness ==
    /\ lastTask.kind = "TrimMemory"
    /\ lastTask.level = TRIM_MEMORY_OTHER
    /\ prev.process_state = PROCESS_STATE_IMPORTANT_BACKGROUND
    /\ SomeServiceTrims(prev.services)
    /\ ~lastOk

\* C13: a DestroyService handled right after a CreateService of the same token
\* that returned Ok leaves the table as it was before that create (empty if it
\* was empty), and closes the library the create loaded exactly once, in this
\* call and not before.
C13_CreateThenDestroy ==
    (/\ lastTask.kind = "DestroyService"
     /\ lastCreate.some
     /\ lastCreate.token = lastTask.service_token) =>
       /\ services = lastCreate.before
       /\ lastCreate.before = EmptyMap => services = EmptyMap
       /\ lastCreate.library \notin prev.closed
       /\ Cardinality({i \in EventsOfKind({"dlclose"}) :
                         lastEvents[i].lib = lastCreate.library}) = 1

\* C14: when the namespace creation, the dlopen or the dlsym of a CreateService
\* fails, the command fails, the table is as it was, the create function is not
\* called and no serviceDoneExecuting is sent.
C14_CreateSetupFailure ==
    (lastTask.kind = "CreateService" /\ lastEnv.load # "ok") =>
       /\ ~lastOk
       /\ services = prev.services
       /\ EventsOfKind(OutboundCalls \cup {"create_func"}) = {}

\* dlopen succeeded and dlsym did not: the library was opened and closed again
C14_Witness ==
    /\ lastTask.kind = "CreateService"
    /\ lastEnv.load = "sym_fail"
    /\ EventsOfKind({"dlopen"}) # {}
    /\ EventsOfKind({"dlclose"}) # {}
    /\ ~lastOk

\* C15: a CreateService whose module loaded and whose create function ran puts
\* the service in the table before it reports completion: when that
\* serviceDoneExecuting fails the command fails, and the token maps to the new
\* service.
C15_InsertBeforeReport ==
    (lastTask.kind = "CreateService" /\ lastEnv.load = "ok" /\ ~lastEnv.ack_ok) =>
       /\ ~lastOk
       /\ lastTask.service_token \in DOMAIN services
       /\ \E i \in EventsOfKind({"dlopen"}) :
            services[lastTask.service_token].library = lastEvents[i].lib

(***************************************************************************)
(* Properties of the endpoint and of Sender::send.                         *)
(***************************************************************************)
\* the manager's fields, the loader or the record of handler calls change
ExecutionStep ==
    \/ Mgr' # Mgr
    \/ closed' # closed
    \/ nsLog' # nsLog
    \/ dispatched' # dispatched
    \/ lastTask' # lastTask
    \/ lastEvents' # lastEvents

\* C16: the table, the process state, the loader and the log of foreign and
\* outbound calls change only in a step of the owner thread's drain loop, and
\* that step runs one task; a step of a binder thread touches only the
\* channel, the eventfd and its own call, and a binder thread that has
\* enqueued its task can always go on to write the eventfd and return, whatever
\* the owner thread is doing.
C16_OnlyOwnerExecutes ==
    /\ [][ExecutionStep =>
            /\ ownerPc = "drain"
            /\ Len(dispatched') = Len(dispatched) + 1
            /\ senderPc' = senderPc /\ lastCall' = lastCall /\ sent' = sent /\ efd' = efd]_vars
    /\ [][(senderPc' # senderPc \/ lastCall' # lastCall) =>
            /\ ~ExecutionStep
            /\ ownerPc' = ownerPc
            /\ Len(queue') + Len(sent) = Len(queue) + Len(sent')]_vars
    /\ [](\A s \in Senders : senderPc[s] = "wake" => ENABLED Wake(s))

\* a remote call has returned Ok while its task, and every task sent so far, is
\* still in the channel and the owner thread has not been called back
C16_Witness ==
    /\ lastCall.reply = "ok"
    /\ \A s \in Senders : senderPc[s] = "idle"
    /\ queue # <<>>
    /\ Len(queue) = Len(sent)
    /\ ownerPc = "poll"

\* C17: a remote call returns Ok only if Sender::send returned Ok, and then its
\* task went into the channel and the eventfd was written; whenever send
\* returned Err the call returned the service-specific error.
C17_ReplyMatchesSend ==
    /\ lastCall.reply = "ok" =>
         lastCall.send = "ok" /\ lastCall.enqueued /\ lastCall.wake = "ok"
    /\ lastCall.send = "err" => lastCall.reply = "err"
    /\ (lastCall.send # "none" /\ (~lastCall.enqueued \/ lastCall.wake = "failed")) =>
         lastCall.reply = "err"

\* a call was refused by the channel of a dropped Handler and returned the
\* error, after an earlier call had put its task in the channel
C17_Witness ==
    /\ lastCall.reply = "err"
    /\ ~lastCall.enqueued
    /\ ~lastCall.alive
    /\ sent # <<>>

\* C18: every task handle_task is called with is the request one of the remote
\* methods builds from its arguments, so that each kind of task the manager
\* handles, SetProcessState among them, can be sent through the endpoint; and
\* every task in the channel is such a request, unchanged.
C18_EveryKindThroughEndpoint ==
    /\ lastTask # NoTask => lastTask \in EndpointRequests
    /\ \A j \in 1..Len(queue) : queue[j].task \in EndpointRequests

C20_NamespaceNamesUnique ==
    /\ \A i \in 1..Len(nsLog) : \A j \in 1..Len(nsLog) : i # j => nsLog[i] # nsLog[j]
    /\ (lastTask.kind = "create_linker_namespace" /\ lastEvents # <<>>
        /\ lastEvents[1].name = SerialMax) => ~lastOk

(***************************************************************************)
(* Further properties of the drain loop and of the handlers.               *)
(***************************************************************************)
\* C26: the drain a wake starts goes back to the looper only when it has found
\* the channel empty (or panics on a failed task), so every task sent before it
\* ends is dispatched by it; no task is dispatched a second time, and a wake
\* signal that is serviced when its task has already been dispatched dispatches
\* nothing.
C26_DrainUntilEmpty ==
    /\ [][(ownerPc = "drain" /\ ownerPc' = "poll") =>
            queue = <<>> /\ queue' = <<>> /\ dispatched' = dispatched]_vars
    /\ [][dispatched' # dispatched =>
            /\ ownerPc = "drain"
            /\ queue # <<>>
            /\ Len(dispatched') = Len(dispatched) + 1
            /\ dispatched'[Len(dispatched')].id = Head(queue).id
            /\ queue' = Tail(queue)]_vars
    /\ [](\A i \in 1..Len(dispatched) : \A j \in 1..Len(dispatched) :
            dispatched[i].id = dispatched[j].id => i = j)

\* the drain of one wake dispatched the tasks of two sends; the wake signal of
\* the later send is still to be serviced and will find the channel empty
C26_Witness ==
    /\ ownerPc = "poll"
    /\ efd > 0
    /\ queue = <<>>
    /\ Len(sent) >= 2
    /\ Len(dispatched) = Len(sent)
    /\ \A s \in Senders : senderPc[s] = "idle"

\* C27: an UnbindService of a known token whose outbound call succeeds makes
\* exactly one outbound call: unbindFinished(token, bind token) if and only if
\* the service has an onUnbind and it returned true, serviceDoneExecuting with
\* the reason UNBIND otherwise; onUnbind is called once if the service has one
\* and not at all if not, and the service stays in the table.
C27_UnbindReports ==
    (lastTask.kind = "UnbindService" /\ LastKnown) =>
       LET has == "onUnbind" \in LastService.callbacks
           wants == has /\ lastEnv.wants_rebind
           n == Len(lastEvents)
       IN /\ lastOk = lastEnv.ack_ok
          /\ Cardinality(EventsOfKind(OutboundCalls)) = 1
          /\ Cardinality(EventsOfKind({"onUnbind"})) = (IF has THEN 1 ELSE 0)
          /\ Cardinality(EventsOfKind(ForeignEntryPoints \ {"onUnbind"})) = 0
          /\ n = (IF has THEN 2 ELSE 1)
          /\ has => lastEvents[1] = [e |-> "onUnbind", lib |-> LastService.library,
                                     intent |-> lastTask.intent_hash,
                                     ret |-> lastEnv.wants_rebind]
          /\ lastEvents[n] =
               (IF wants
                  THEN [e |-> "unbindFinished", token |-> lastTask.service_token,
                        bind_token |-> lastTask.bind_token]
                  ELSE [e |-> "serviceDoneExecuting", token |-> lastTask.service_token,
                        reason |-> "UNBIND"])
          /\ services = prev.services

\* the module would answer true but the service has no onUnbind: the unbind
\* reports ordinary completion
C27_Witness ==
    /\ lastTask.kind = "UnbindService"
    /\ LastKnown
    /\ "onUnbind" \notin LastService.callbacks
    /\ lastEnv.wants_rebind
    /\ lastOk
    /\ Len(lastEvents) = 1

\* C28: a BindService with rebind = true of a known token calls neither onBind
\* nor publishService; it calls onRebind once if the service has one, then
\* serviceDoneExecuting with the reason REBIND exactly once, and returns Ok
\* when that call succeeds, also for a service with neither onRebind nor onBind.
C28_RebindReports ==
    (lastTask.kind = "BindService" /\ lastTask.rebind /\ LastKnown) =>
       LET has == "onRebind" \in LastService.callbacks
           n == Len(lastEvents)
       IN /\ lastOk = lastEnv.ack_ok
          /\ EventsOfKind({"onBind", "publishService"}) = {}
          /\ n = (IF has THEN 2 ELSE 1)
          /\ has => lastEvents[1] = [e |-> "onRebind", lib |-> LastService.library,
                                     intent |-> lastTask.intent_hash]
          /\ lastEvents[n] = [e |-> "serviceDoneExecuting",
                              token |-> lastTask.service_token, reason |-> "REBIND"]
          /\ services = prev.services

\* a rebind of a service whose module supplied no entry point at all succeeded
C28_Witness ==
    /\ lastTask.kind = "BindService"
    /\ lastTask.rebind
    /\ LastKnown
    /\ LastService.callbacks = {}
    /\ lastOk
    /\ Len(lastEvents) = 1

\* C29: a TrimMemory at the UI-hidden level in any process state, or at the
\* background level while the process is less important than
\* important-foreground, returns Ok and calls the onTrimMemory of every service
\* that has one, once each, with that level and in ascending order of the
\* tokens; it calls nothing for the other services and nothing else.
C29_TrimReachesEveryService ==
    (/\ lastTask.kind = "TrimMemory"
     /\ \/ lastTask.level = TRIM_MEMORY_UI_HIDDEN
        \/ /\ lastTask.level = TRIM_MEMORY_BACKGROUND
           /\ prev.process_state > PROCESS_STATE_IMPORTANT_FOREGROUND) =>
       LET call(t) ==
             IF t \in DOMAIN prev.services /\ "onTrimMemory" \in prev.services[t].callbacks
               THEN <<[e |-> "onTrimMemory", lib |-> prev.services[t].library,
                       level |-> lastTask.level]>>
               ELSE <<>>
       IN /\ lastOk
          /\ ServiceTokens = {1, 2}
          /\ lastEvents = call(1) \o call(2)
          /\ services = prev.services
          /\ process_state = prev.process_state

\* both services have an onTrimMemory and each was called, token 1 first
C29_Witness ==
    /\ lastTask.kind = "TrimMemory"
    /\ lastTask.level = TRIM_MEMORY_BACKGROUND
    /\ prev.process_state > PROCESS_STATE_IMPORTANT_FOREGROUND
    /\ DOMAIN prev.services = {1, 2}
    /\ \A t \in {1, 2} : "onTrimMemory" \in prev.services[t].callbacks
    /\ prev.services[1].library # prev.services[2].library
    /\ Len(lastEvents) = 2
    /\ lastOk

\* one service has an onTrimMemory and the other has none: one call
C29_WitnessSkip ==
    /\ lastTask.kind = "TrimMemory"
    /\ lastTask.level = TRIM_MEMORY_UI_HIDDEN
    /\ DOMAIN prev.services = {1, 2}
    /\ "onTrimMemory" \notin prev.services[1].callbacks
    /\ "onTrimMemory" \in prev.services[2].callbacks
    /\ Len(lastEvents) = 1

\* C30: a BindApplication makes exactly one outbound call,
\* finishAttachApplication with the start sequence of the process, and no
\* foreign call; it returns what that call returns and leaves the table and
\* the process state as they were.
C30_BindApplicationAttaches ==
    lastTask.kind = "BindApplication" =>
       /\ lastEvents = <<[e |-> "finishAttachApplication", seq |-> StartSeq]>>
       /\ lastOk = lastEnv.ack_ok
       /\ services = prev.services
       /\ process_state = prev.process_state

\* a BindApplication handled with a service in the table, which stays
C30_Witness ==
    /\ lastTask.kind = "BindApplication"
    /\ lastOk
    /\ prev.services # << >>
    /\ DOMAIN services = DOMAIN prev.services
    /\ Len(lastEvents) = 1

\* C31: the process state changes only in a SetProcessState, which makes it
\* the state of the command whatever it was; every other command, whether it
\* returned Ok or an error, leaves it as it was, and so do the process states
\* that a create and a bind carry.
C31_OnlySetProcessStateSets ==
    lastTask # NoTask =>
       IF lastTask.kind = "SetProcessState"
         THEN process_state = lastTask.state /\ lastOk
         ELSE process_state = prev.process_state

\* a SetProcessState over a state that had been set before
C31_Witness ==
    /\ lastTask.kind = "SetProcessState"
    /\ prev.process_state = PROCESS_STATE_IMPORTANT_BACKGROUND
    /\ process_state = PROCESS_STATE_TOP

\* a bind that carried another process state than the recorded one
C31_WitnessHint ==
    /\ lastTask.kind = "BindService"
    /\ lastTask.process_state_hint = PROCESS_STATE_TOP
    /\ process_state = PROCESS_STATE_IMPORTANT_BACKGROUND
    /\ lastOk

\* C32: BindService, UnbindService, TrimMemory, BindApplication and
\* SetProcessState leave the table of services as it was, whether they return
\* Ok or an error; a token comes into the table only in a CreateService, and a
\* service leaves it only in a DestroyService or in a CreateService that
\* replaces it.
C32_TableFrame ==
    lastTask # NoTask =>
       /\ lastTask.kind \in {"BindService", "UnbindService", "TrimMemory",
                             "BindApplication", "SetProcessState"}
            => services = prev.services
       /\ DOMAIN services \ DOMAIN prev.services # {} => lastTask.kind = "CreateService"
       /\ DOMAIN prev.services \ DOMAIN services # {} => lastTask.kind = "DestroyService"
       /\ (\E t \in DOMAIN prev.services \cap DOMAIN services :
             services[t] # prev.services[t]) => lastTask.kind = "CreateService"

\* a bind whose onBind returned the null pointer failed with two services in
\* the table
C32_Witness ==
    /\ lastTask.kind = "BindService"
    /\ ~lastTask.rebind
    /\ ~lastOk
    /\ DOMAIN prev.services = {1, 2}
    /\ DOMAIN services = {1, 2}

\* a trim that reached a service, with the table as before
C32_WitnessTrim ==
    /\ lastTask.kind = "TrimMemory"
    /\ lastEvents # <<>>
    /\ DOMAIN services = {1, 2}

\* C37: the process state is UNKNOWN at the start and stays so until a
\* SetProcessState is handled; a background TrimMemory handled in that state
\* returns Ok without any foreign call (UNKNOWN is below important-foreground
\* in the comparison), and a UI-hidden TrimMemory handled in that state calls
\* the onTrimMemory of every service that has one.
C37_UnknownStateTrims ==
    /\ process_state = -1
    /\ [][(process_state = -1 /\ process_state' # -1)
            => lastTask'.kind = "SetProcessState"]_vars
    /\ []((lastTask.kind = "TrimMemory" /\ prev.process_state = -1) =>
            LET call(t) ==
                  IF t \in DOMAIN prev.services
                       /\ "onTrimMemory" \in prev.services[t].callbacks
                    THEN <<[e |-> "onTrimMemory", lib |-> prev.services[t].library,
                            level |-> lastTask.level]>>
                    ELSE <<>>
            IN /\ lastTask.level = TRIM_MEMORY_BACKGROUND =>
                    lastOk /\ lastEvents = <<>>
               /\ lastTask.level = TRIM_MEMORY_UI_HIDDEN =>
                    lastOk /\ lastEvents = call(1) \o call(2))

\* a background trim handled before any SetProcessState, with a service that
\* has an onTrimMemory, made no call
C37_Witness ==
    /\ lastTask.kind = "TrimMemory"
    /\ lastTask.level = TRIM_MEMORY_BACKGROUND
    /\ prev.process_state = PROCESS_STATE_UNKNOWN
    /\ process_state = PROCESS_STATE_UNKNOWN
    /\ SomeServiceTrims(prev.services)
    /\ lastOk
    /\ lastEvents = <<>>

\* a UI-hidden trim in the UNKNOWN state reached both services
C37_WitnessUiHidden ==
    /\ lastTask.kind = "TrimMemory"
    /\ lastTask.level = TRIM_MEMORY_UI_HIDDEN
    /\ prev.process_state = PROCESS_STATE_UNKNOWN
    /\ Len(lastEvents) = 2

\* C33: in a bind that is not a rebind, onBind gets the null pointer for the
\* action exactly when the command has no action string, and the null pointer
\* for the data exactly when it has no data string; a string that is there is
\* passed as a pointer, not null, to its C string.
C33_NullIffAbsent ==
    (lastTask.kind = "BindService" /\ ~lastTask.rebind /\ EventsOfKind({"onBind"}) # {}) =>
       LET ev == lastEvents[1] IN
       /\ ev.action.null <=> ~lastTask.action.some
       /\ ev.data.null <=> ~lastTask.data.some
       /\ lastTask.action.some => ev.action.cstr = lastTask.action.s
       /\ lastTask.data.some => ev.data.cstr = lastTask.data.s

\* what holds of the pointers: null for a string that is absent or has a NUL
\* inside, the C string of the string otherwise
C33_NullIffAbsentOrNul ==
    (lastTask.kind = "BindService" /\ ~lastTask.rebind /\ EventsOfKind({"onBind"}) # {}) =>
       LET ev == lastEvents[1]
           has_nul(str) == \E i \in 1..Len(str) : str[i] = 0
       IN /\ ev.action.null <=> (~lastTask.action.some \/ has_nul(lastTask.action.s))
          /\ ev.data.null <=> (~lastTask.data.some \/ has_nul(lastTask.data.s))
          /\ ~ev.action.null => ev.action.cstr = lastTask.action.s
          /\ ~ev.data.null => ev.data.cstr = lastTask.data.s

\* C38: a wake signal written after a drain has already taken its task makes
\* the looper call poll_callback on an empty channel: the eventfd is read, no
\* task is dispatched, nothing fails, and the owner goes back to polling, where
\* it takes later tasks.
C38_LateWakeIsHarmless ==
    /\ [][(ownerPc = "poll" /\ ownerPc' = "drain") =>
            efd > 0 /\ efd' = 0 /\ queue' = queue /\ dispatched' = dispatched]_vars
    /\ [][(ownerPc = "drain" /\ queue = <<>> /\ ownerPc' # "drain") =>
            /\ ownerPc' = "poll"
            /\ dispatched' = dispatched
            /\ services' = services
            /\ lastOk' = lastOk /\ lastEvents' = lastEvents]_vars
    /\ []((ownerPc = "drain" /\ queue = <<>>) => ENABLED HandleTasksEmpty)
    /\ []((ownerPc = "poll" /\ efd > 0) => ENABLED PollCallback)

\* the late wake signal is pending: a sender has returned from wake, the
\* channel is empty and the task it sent was dispatched by the drain of an
\* earlier wake, which returned Ok
C38_Witness ==
    /\ ownerPc = "poll"
    /\ efd = 1
    /\ queue = <<>>
    /\ lastCall.wake = "ok"
    /\ Len(sent) = 2
    /\ Len(dispatched) = 2
    /\ dispatched[2].ok

\* C39: when Sender::send has returned an error, and the remote call has
\* reported it, the task is not in the channel and is never handled.
C39_FailedSendNotEnqueued ==
    lastCall.send = "err" => (lastCall.reply = "err" /\ ~lastCall.enqueued)

\* send returned an error for a task that went into the channel, and every
\* task sent so far, that one among them, has been handled
C39_FailedSendHandled ==
    /\ lastCall.send = "err"
    /\ lastCall.enqueued
    /\ Len(sent) = 2
    /\ Len(dispatched) = 2

(***************************************************************************)
(* usb4 PCI authorizer: the task (pci_authorizer.rs).                      *)
(***************************************************************************)
\* PciAuthorizerTask::handle_service_event: whether the loop goes on, the
\* fields and the sysfs attributes after it, the bulk operation it ran and
\* what that returned
handle_service_event(pd, state, t, p, ev, io) ==
    IF ev.kind = "Shutdown"
      THEN [continue |-> FALSE, policy_data |-> pd, state |-> state, tbt |-> t,
            pci |-> p, bulk |-> "none", ok |-> TRUE]
      ELSE LET pd2 == UpdatePolicy(pd, ev)
               old_state == state
               new_state == calculate_auth_state(pd2)
               bulk == BulkAction(old_state, new_state)
               r == CASE bulk = "authorize" -> authorize_all_devices(t, p, io)
                      [] bulk = "deauthorize" -> deauthorize_all_devices(t, p, io)
                      [] OTHER -> [ok |-> TRUE, tbt |-> t, pci |-> p]
           IN IF old_state = new_state
                THEN [continue |-> TRUE, policy_data |-> pd2, state |-> state,
                      tbt |-> t, pci |-> p, bulk |-> "none", ok |-> TRUE]
                ELSE [continue |-> TRUE, policy_data |-> pd2, state |-> new_state,
                      tbt |-> r.tbt, pci |-> r.pci, bulk |-> bulk, ok |-> r.ok]

\* an add uevent authorized whatever the state is
UeventAuthorizes_any_state(state) == TRUE

\* an add uevent authorized while new devices are deferred too
UeventAuthorizes_when_deferred(state) == state \in {"Authorized", "DeferNewDevices"}

\* handle_uevent_result: self.current_pci_auth_state == PciAuthState::Authorized
\* for a uevent of the thunderbolt subsystem with the action add
UeventAuthorizes(state) == state = "Authorized"

\* the answers of sysfs that the bulk operation of an event gets to see: those
\* about a directory it does not list, about writes after a listing that
\* failed, or about writes it has no reason to make, are left at their default
IoFor(pd, state, t, p, ev) ==
    LET new_state == calculate_auth_state(UpdatePolicy(pd, ev))
        bulk == IF new_state = state THEN "none" ELSE BulkAction(state, new_state)
        removable == {d \in PciDevices : p[d] = "removable"}
        with(val) == {d \in TbtDevices : t[d] = val}
    IN CASE bulk = "authorize" ->
              {[IoOk EXCEPT !.tbt_dir_ok = FALSE]}
              \cup {[IoOk EXCEPT !.write_fail = w] : w \in SUBSET with("0")}
         [] bulk = "deauthorize" ->
              {[IoOk EXCEPT !.pci_dir_ok = FALSE]}
              \cup {[IoOk EXCEPT !.tbt_dir_ok = FALSE, !.remove_fail = r] :
                      r \in SUBSET removable}
              \cup {[IoOk EXCEPT !.remove_fail = r, !.write_fail = w] :
                      r \in SUBSET removable, w \in SUBSET with("1")}
         [] OTHER -> {IoOk}

\* the latest step was the add uevent of device d, for which
\* authorize_thunderbolt_dev was called and returned Ok or an error
AddUevent(d, state, ok) ==
    [ev |-> [kind |-> "add", devpath |-> d], old |-> state,
     bulk |-> "authorize_thunderbolt_dev", ok |-> ok]

\* the task handles one policy event
ServiceEventStep(ev, io) ==
    LET r == handle_service_event(policy_data, current_pci_auth_state, tbt, pci, ev, io) IN
    /\ policy_data' = r.policy_data
    /\ current_pci_auth_state' = r.state
    /\ tbt' = r.tbt
    /\ pci' = r.pci
    /\ taskPc' = IF r.continue THEN "run" ELSE "done"
    /\ pciLast' = [ev |-> ev, old |-> current_pci_auth_state, bulk |-> r.bulk, ok |-> r.ok]

\* run(), the branch of a policy event, with the event as the caller of a
\* TunnelControl method chose it
HandleServiceEvent(ev) ==
    /\ taskPc = "run"
    /\ \E io \in IoFor(policy_data, current_pci_auth_state, tbt, pci, ev) :
         ServiceEventStep(ev, io)
    /\ issued' = UpdatePolicy(issued, ev)
    /\ UNCHANGED <<event_channel, authorizerPc, uevents>>
    /\ UNCHANGED <<nativeVars, devpath, attr_calls>>

\* run(), the branch of the uevent socket, for the add uevent of thunderbolt
\* device d (uevents of other subsystems and actions change nothing)
HandleUevent(d, write_ok) ==
    /\ taskPc = "run"
    /\ d \in uevents
    /\ uevents' = uevents \ {d}
    /\ LET r == set_authorized_attribute(tbt[d], TRUE, write_ok) IN
         IF UeventAuthorizes(current_pci_auth_state)
           THEN /\ tbt' = [tbt EXCEPT ![d] = r.val]
                /\ pciLast' = AddUevent(d, current_pci_auth_state, r.ok)
           ELSE /\ tbt' = tbt
                /\ pciLast' = NoPciEvent
    /\ UNCHANGED <<policy_data, current_pci_auth_state, taskPc, event_channel,
                   authorizerPc, pci>>
    /\ UNCHANGED <<nativeVars, issued, devpath, attr_calls>>

\* a thunderbolt device is plugged in: the kernel creates it unauthorized and
\* sends its add uevent
TbtPlug(d) ==
    /\ tbt[d] = "absent"
    /\ tbt' = [tbt EXCEPT ![d] = "0"]
    /\ uevents' = uevents \cup {d}
    /\ pciLast' = NoPciEvent
    /\ UNCHANGED <<policy_data, current_pci_auth_state, taskPc, event_channel,
                   authorizerPc, pci>>
    /\ UNCHANGED <<nativeVars, issued, devpath, attr_calls>>

\* a thunderbolt device is unplugged
TbtUnplug(d) ==
    /\ tbt[d] # "absent"
    /\ tbt' = [tbt EXCEPT ![d] = "absent"]
    /\ pciLast' = NoPciEvent
    /\ UNCHANGED <<policy_data, current_pci_auth_state, taskPc, event_channel,
                   authorizerPc, pci, uevents>>
    /\ UNCHANGED <<nativeVars, issued, devpath, attr_calls>>

\* a removed PCI device is found again by a rescan of the bus
PciRescan(d) ==
    /\ pci[d] = "removed"
    /\ pci' = [pci EXCEPT ![d] = "removable"]
    /\ pciLast' = NoPciEvent
    /\ UNCHANGED <<policy_data, current_pci_auth_state, taskPc, event_channel,
                   authorizerPc, tbt, uevents>>
    /\ UNCHANGED <<nativeVars, issued, devpath, attr_calls>>

\* the task on a machine whose devices are there at the start, authorized or
\* not
InitPciTask ==
    /\ services = EmptyMap
    /\ process_state = PROCESS_STATE_UNKNOWN
    /\ serial = SerialZero
    /\ opened = 0
    /\ closed = {}
    /\ queue = <<>>
    /\ efd = 0
    /\ senderPc = [s \in Senders |-> "idle"]
    /\ ownerPc = "poll"
    /\ sent = <<>>
    /\ dispatched = <<>>
    /\ live = {}
    /\ lastTask = NoTask
    /\ lastEnv = DefaultEnv
    /\ lastOk = TRUE
    /\ lastEvents = <<>>
    /\ prev = NoPrev
    /\ lastCreate = NoCreate
    /\ nsLog = <<>>
    /\ lastCall = NoCall
    /\ PciAuthorizerNew
    /\ NoAttrCalls
    /\ tbt \in [TbtDevices -> {"absent", "0", "1"}]
    /\ pci \in [PciDevices -> {"fixed", "removable"}]

NextPciTask ==
    \/ \E ev \in PolicyEvents : HandleServiceEvent(ev)
    \/ \E d \in TbtDevices, write_ok \in BOOLEAN : HandleUevent(d, write_ok)
    \/ \E d \in TbtDevices : TbtPlug(d)
    \/ \E d \in TbtDevices : TbtUnplug(d)
    \/ \E d \in PciDevices : PciRescan(d)

\* the task of the PCI authorizer with every policy event, every answer of
\* sysfs and hotplug
SpecPciTask == InitPciTask /\ [][NextPciTask]_vars

(***************************************************************************)
(* Properties of the PCI authorizer.                                       *)
(***************************************************************************)
\* C21: at the start and after every policy event the task has handled, the
\* current state is the one the policy data determine: Disabled if tunnels are
\* not enabled; DenyNoUser if they are and no user is logged in;
\* DeferNewDevices if they are, a user is logged in and the screen is locked;
\* Authorized if they are, a user is logged in and the screen is unlocked. The
\* state at the start is Disabled.
C21_StateFollowsPolicy ==
    /\ ~policy_data.pci_tunnels_enabled => current_pci_auth_state = "Disabled"
    /\ (policy_data.pci_tunnels_enabled /\ policy_data.logged_in_users = {})
         => current_pci_auth_state = "DenyNoUser"
    /\ (/\ policy_data.pci_tunnels_enabled
        /\ policy_data.logged_in_users # {}
        /\ policy_data.is_locked) => current_pci_auth_state = "DeferNewDevices"
    /\ (/\ policy_data.pci_tunnels_enabled
        /\ policy_data.logged_in_users # {}
        /\ ~policy_data.is_locked) => current_pci_auth_state = "Authorized"
    /\ (policy_data = [pci_tunnels_enabled |-> FALSE, is_locked |-> TRUE,
                       logged_in_users |-> {}]) => current_pci_auth_state = "Disabled"

\* the screen was unlocked with tunnels enabled and a user logged in
C21_Witness ==
    /\ pciLast.ev = [kind |-> "UpdateLockState", flag |-> FALSE, user_id |-> 0]
    /\ pciLast.old = "DeferNewDevices"
    /\ current_pci_auth_state = "Authorized"
    /\ policy_data.logged_in_users = {2}

\* a policy event was handled in the latest step and changed the state
PciTransition ==
    pciLast # NoPciEvent /\ pciLast.old # current_pci_auth_state

\* C22 as stated: a thunderbolt device that is there and unauthorized is
\* authorized only by a step that ends in the state Authorized, and when the
\* state has become Authorized every thunderbolt device that is there is
\* authorized.
C22_AuthorizedOnlyWhenAuthorized ==
    /\ [][\A d \in TbtDevices :
            (tbt[d] = "0" /\ tbt'[d] = "1") => current_pci_auth_state' = "Authorized"]_vars
    /\ []((PciTransition /\ current_pci_auth_state = "Authorized") =>
            \A d \in TbtDevices : tbt[d] # "absent" => tbt[d] = "1")

\* C22, amended: a thunderbolt device that is there and unauthorized is
\* authorized only by a step that ends in the state Authorized; when the state
\* has become Authorized and authorize_all_devices returned Ok, every
\* thunderbolt device that is there is authorized; when it returned an error
\* (the listing or a write failed) the state is Authorized all the same.
C22_AuthorizedWhenBulkSucceeds ==
    /\ [][\A d \in TbtDevices :
            (tbt[d] = "0" /\ tbt'[d] = "1") => current_pci_auth_state' = "Authorized"]_vars
    /\ []((PciTransition /\ current_pci_auth_state = "Authorized") =>
            /\ pciLast.bulk = "authorize"
            /\ pciLast.ok => \A d \in TbtDevices : tbt[d] # "absent" => tbt[d] = "1")

\* the state became Authorized, authorize_all_devices failed and a device that
\* is there is still unauthorized
C22_Witness ==
    /\ PciTransition
    /\ current_pci_auth_state = "Authorized"
    /\ ~pciLast.ok
    /\ tbt["0-1"] = "0"
    /\ tbt["0-3"] = "1"

\* C23 as stated: whenever the state has changed to DenyNoUser or to Disabled,
\* from whatever state, every thunderbolt device that is there is deauthorized
\* and every removable PCI device has had 1 written to its remove attribute.
C23_DenyDeauthorizesAll ==
    (PciTransition /\ current_pci_auth_state \in {"DenyNoUser", "Disabled"}) =>
       /\ \A d \in TbtDevices : tbt[d] # "absent" => tbt[d] = "0"
       /\ \A d \in PciDevices : pci[d] # "removable"

\* C23, amended: whenever the state has changed to DenyNoUser or to Disabled,
\* from whatever state, deauthorize_all_devices has run; if it returned Ok,
\* every thunderbolt device that is there is deauthorized and every removable
\* PCI device has had 1 written to its remove attribute; if it returned an
\* error (a listing or a write failed) the state has changed all the same.
C23_DenyDeauthorizesWhenBulkSucceeds ==
    (PciTransition /\ current_pci_auth_state \in {"DenyNoUser", "Disabled"}) =>
       /\ pciLast.bulk = "deauthorize"
       /\ pciLast.ok =>
            /\ \A d \in TbtDevices : tbt[d] # "absent" => tbt[d] = "0"
            /\ \A d \in PciDevices : pci[d] # "removable"

\* tunnels were disabled in the state Authorized, the deauthorization returned
\* an error, and an authorized device and a removable PCI device are left
C23_Witness ==
    /\ PciTransition
    /\ pciLast.old = "Authorized"
    /\ current_pci_auth_state = "Disabled"
    /\ ~pciLast.ok
    /\ tbt["0-1"] = "1"
    /\ pci["04:00.0"] = "removable"

\* the same change of state with a deauthorization that returned Ok
C23_WitnessOk ==
    /\ PciTransition
    /\ pciLast.old = "Authorized"
    /\ current_pci_auth_state = "DenyNoUser"
    /\ pciLast.ok
    /\ tbt = [d \in TbtDevices |-> "0"]
    /\ pci = [d \in PciDevices |-> "removed"]

\* C24: the change from Authorized to DeferNewDevices (the screen is locked)
\* runs no bulk operation: the authorized attribute of every thunderbolt device
\* and every PCI device are as they were, so that what was authorized stays
\* authorized and nothing is removed.
C24_LockKeepsDevices ==
    /\ [][(/\ current_pci_auth_state = "Authorized"
           /\ current_pci_auth_state' = "DeferNewDevices") =>
            tbt' = tbt /\ pci' = pci]_vars
    /\ []((/\ pciLast # NoPciEvent
           /\ pciLast.old = "Authorized"
           /\ current_pci_auth_state = "DeferNewDevices") =>
            pciLast = [ev |-> [kind |-> "UpdateLockState", flag |-> TRUE, user_id |-> 0],
                       old |-> "Authorized", bulk |-> "none", ok |-> TRUE])

\* the screen was locked with a device authorized and a removable PCI device
\* there
C24_Witness ==
    /\ pciLast.ev.kind = "UpdateLockState"
    /\ pciLast.old = "Authorized"
    /\ current_pci_auth_state = "DeferNewDevices"
    /\ tbt["0-1"] = "1"
    /\ pci["03:00.0"] = "removable"

\* the state became Authorized and authorize_all_devices returned Ok
C22_WitnessOk ==
    /\ PciTransition
    /\ pciLast.old = "DeferNewDevices"
    /\ current_pci_auth_state = "Authorized"
    /\ pciLast.ok
    /\ tbt = [d \in TbtDevices |-> "1"]

\* the step handles the add uevent of device d, which is there and
\* unauthorized
UeventHandled(d) ==
    d \in uevents /\ d \notin uevents' /\ tbt[d] = "0"

\* C34 as stated: the add uevent of a thunderbolt device gets the device
\* authorized if and only if the state is Authorized when the uevent is
\* handled, and a device deferred in DeferNewDevices is authorized when the
\* state next becomes Authorized.
C34_AddAuthorizedIffAuthorized ==
    /\ [][\A d \in TbtDevices :
            UeventHandled(d) =>
              (tbt'[d] = "1" <=> current_pci_auth_state = "Authorized")]_vars
    /\ []((/\ PciTransition
           /\ pciLast.old = "DeferNewDevices"
           /\ current_pci_auth_state = "Authorized") =>
            \A d \in TbtDevices : tbt[d] # "absent" => tbt[d] = "1")

\* C34, amended: an add uevent handled in DeferNewDevices, DenyNoUser or
\* Disabled writes nothing and leaves the device unauthorized; one handled in
\* Authorized calls authorize_thunderbolt_dev, and the device is authorized
\* exactly when that returns Ok; when the state goes from DeferNewDevices to
\* Authorized, authorize_all_devices runs, and every device that is there is
\* authorized if it returns Ok.
C34_AddAuthorizedWhenWriteSucceeds ==
    /\ [][\A d \in TbtDevices :
            UeventHandled(d) =>
              /\ current_pci_auth_state' = current_pci_auth_state
              /\ current_pci_auth_state # "Authorized" =>
                   (tbt' = tbt /\ pciLast' = NoPciEvent)
              /\ current_pci_auth_state = "Authorized" =>
                   /\ pciLast' = AddUevent(d, "Authorized", pciLast'.ok)
                   /\ tbt' = [tbt EXCEPT ![d] = IF pciLast'.ok THEN "1" ELSE "0"]]_vars
    /\ []((/\ PciTransition
           /\ pciLast.old = "DeferNewDevices"
           /\ current_pci_auth_state = "Authorized") =>
            /\ pciLast.bulk = "authorize"
            /\ pciLast.ok => \A d \in TbtDevices : tbt[d] # "absent" => tbt[d] = "1")

\* the add uevent of a device was handled in the state Authorized, and the
\* device is authorized
C34_Witness ==
    /\ pciLast = AddUevent("0-1", "Authorized", TRUE)
    /\ tbt["0-1"] = "1"
    /\ current_pci_auth_state = "Authorized"

\* the screen was unlocked, and a device whose add uevent has not been read
\* yet was authorized with the others
C34_WitnessDeferred ==
    /\ PciTransition
    /\ pciLast.old = "DeferNewDevices"
    /\ current_pci_auth_state = "Authorized"
    /\ pciLast.ok
    /\ "0-3" \in uevents
    /\ tbt["0-3"] = "1"

\* the add uevent of a device was handled in the state Authorized, the write
\* failed, and the device is unauthorized
C34_WitnessWriteFails ==
    /\ pciLast = AddUevent("0-1", "Authorized", FALSE)
    /\ tbt["0-1"] = "0"
    /\ current_pci_auth_state = "Authorized"

(***************************************************************************)
(* usb4 PCI authorizer: the channel and the drop (pci_authorizer.rs).      *)
(***************************************************************************)
\* the policy events the owner of the PciAuthorizer sends in the runs of the
\* channel
ChannelEvents == {EnablePciTunnels(TRUE)}

\* mpsc::Sender::try_send: Ok and the event at the back of the channel, or an
\* error (Full, or Closed once the task has dropped the Receiver) and the
\* channel as it was
try_send(chan, receiver_there, ev) ==
    IF receiver_there /\ Len(chan) < MESSAGE_QUEUE_SIZE
      THEN [ok |-> TRUE, chan |-> Append(chan, ev)]
      ELSE [ok |-> FALSE, chan |-> chan]

\* the pattern of the uevent branch of select! is a plain binding: whatever
\* read() returns matches it, so the branch is never disabled
UeventBranchDisabled == FALSE

\* tokio::select!: the else branch runs when every branch is disabled
SelectElse(recv_branch_disabled) == recv_branch_disabled /\ UeventBranchDisabled

\* PciAuthorizer::send_event, called by a TunnelControl method
SendEvent(ev) ==
    /\ authorizerPc = "alive"
    /\ event_channel' = try_send(event_channel, taskPc = "run", ev).chan
    /\ issued' = UpdatePolicy(issued, ev)
    /\ pciLast' = NoPciEvent
    /\ UNCHANGED <<policy_data, current_pci_auth_state, taskPc, authorizerPc, tbt, pci,
                   uevents>>
    /\ UNCHANGED <<nativeVars, devpath, attr_calls>>

\* impl Drop for PciAuthorizer: try_send(Shutdown), whose error is logged; the
\* JoinHandle is dropped, which detaches the task; then the Sender is dropped,
\* which closes the channel
DropAuthorizer ==
    /\ authorizerPc = "alive"
    /\ event_channel' = try_send(event_channel, taskPc = "run", Shutdown).chan
    /\ authorizerPc' = "dropped"
    /\ pciLast' = NoPciEvent
    /\ UNCHANGED <<policy_data, current_pci_auth_state, taskPc, tbt, pci, uevents>>
    /\ UNCHANGED <<nativeVars, issued, devpath, attr_calls>>

\* run(), the branch Some(service_event) = self.event_receiver.recv()
TaskRecv ==
    /\ taskPc = "run"
    /\ event_channel # <<>>
    /\ event_channel' = Tail(event_channel)
    /\ \E io \in IoFor(policy_data, current_pci_auth_state, tbt, pci, Head(event_channel)) :
         ServiceEventStep(Head(event_channel), io)
    /\ UNCHANGED <<authorizerPc, uevents>>
    /\ UNCHANGED <<nativeVars, issued, devpath, attr_calls>>

\* run(), recv() returning None on the closed and empty channel: the pattern
\* Some(..) does not match, the branch is disabled, and select! goes on
\* waiting for the uevent branch unless the else branch runs
TaskRecvNone ==
    /\ taskPc = "run"
    /\ event_channel = <<>>
    /\ authorizerPc = "dropped"
    /\ taskPc' = IF SelectElse(TRUE) THEN "done" ELSE "run"
    /\ pciLast' = NoPciEvent
    /\ UNCHANGED <<policy_data, current_pci_auth_state, event_channel, authorizerPc,
                   tbt, pci, uevents>>
    /\ UNCHANGED <<nativeVars, issued, devpath, attr_calls>>

NextPciDrop ==
    \/ \E ev \in ChannelEvents : SendEvent(ev)
    \/ DropAuthorizer
    \/ TaskRecv
    \/ TaskRecvNone
    \/ \E d \in TbtDevices, write_ok \in BOOLEAN : HandleUevent(d, write_ok)
    \/ \E d \in TbtDevices : TbtPlug(d)
    \/ \E d \in TbtDevices : TbtUnplug(d)

\* the PciAuthorizer, its channel and its task; the runtime keeps polling the
\* task, and select! takes a branch that stays ready
FairSpecPciDrop ==
    /\ Init
    /\ [][NextPciDrop]_vars
    /\ WF_vars(TaskRecv)
    /\ WF_vars(TaskRecvNone)
    /\ WF_vars(\E d \in TbtDevices, write_ok \in BOOLEAN : HandleUevent(d, write_ok))

\* C25: once the PciAuthorizer has been dropped, the task leaves its loop and
\* ends, whatever the channel held at the drop (nothing, some events, or
\* MESSAGE_QUEUE_SIZE events) and whether or not uevents keep arriving.
C25_DropEndsTask ==
    (authorizerPc = "dropped") ~> (taskPc = "done")

\* what holds instead: the task ends once it has received the Shutdown event,
\* which is in the channel only if the channel was not full at the drop
C25_ShutdownEndsTask ==
    [][taskPc = "run" /\ taskPc' = "done" =>
         event_channel # <<>> /\ Head(event_channel) = Shutdown]_vars

(***************************************************************************)
(* usb4 PCI authorizer: bursts of policy updates (pci_authorizer.rs).      *)
(***************************************************************************)
\* the updates the owner of the PciAuthorizer issues in a burst
BurstEvents == {EnablePciTunnels(TRUE), EnablePciTunnels(FALSE)}

NextPciBurst ==
    \/ \E ev \in BurstEvents : SendEvent(ev)
    \/ TaskRecv

\* the owner issuing updates at any pace, the task receiving them at any pace
SpecPciBurst == Init /\ [][NextPciBurst]_vars

\* the task has received everything the channel held
CaughtUp == taskPc = "run" /\ event_channel = <<>>

\* C35: once the task has caught up with the updates issued through
\* TunnelControl, its policy data hold the most recent value of each input
\* and its state is the one they determine, however many updates were issued
\* while the task was not receiving.
C35_CaughtUpReflectsLatest ==
    CaughtUp =>
      /\ policy_data = issued
      /\ current_pci_auth_state = calculate_auth_state(issued)

\* what holds instead: the task applies the updates that try_send accepted,
\* oldest first; an update issued while the channel holds MESSAGE_QUEUE_SIZE
\* events leaves the channel as it is
C35_AcceptedUpdatesApplied ==
    /\ [][event_channel' # event_channel =>
            \/ /\ Len(event_channel) < MESSAGE_QUEUE_SIZE
               /\ \E ev \in BurstEvents : event_channel' = Append(event_channel, ev)
               /\ policy_data' = policy_data
            \/ /\ event_channel # <<>>
               /\ event_channel' = Tail(event_channel)
               /\ policy_data' = UpdatePolicy(policy_data, Head(event_channel))]_vars
    /\ [][(Len(event_channel) = MESSAGE_QUEUE_SIZE /\ issued' # issued) =>
            (event_channel' = event_channel /\ policy_data' = policy_data)]_vars

\* the task caught up after an update was lost: tunnels were disabled last,
\* and the task has them enabled
C35_UpdateLost ==
    /\ CaughtUp
    /\ ~issued.pci_tunnels_enabled
    /\ policy_data.pci_tunnels_enabled
    /\ current_pci_auth_state = "DenyNoUser"

(***************************************************************************)
(* usb4 PCI authorizer: set_authorized_attribute on one path (sysfs.rs).   *)
(***************************************************************************)
\* one call of set_authorized_attribute on the path
AttrCall(enable, write_ok) ==
    /\ Len(attr_calls) < MaxAttrCalls
    /\ LET r == SysfsUtils_set_authorized_attribute(devpath, enable, write_ok) IN
         /\ devpath' = r.path
         /\ attr_calls' = Append(attr_calls,
                                 [enable |-> enable, write_ok |-> write_ok,
                                  before |-> devpath, after |-> r.path,
                                  ok |-> r.ok, wrote |-> r.wrote])
    /\ UNCHANGED <<policy_data, current_pci_auth_state, taskPc, event_channel,
                   authorizerPc, tbt, pci, uevents, pciLast, issued>>
    /\ UNCHANGED nativeVars

\* SysfsUtils::authorize_thunderbolt_dev
AuthorizeThunderboltDev(write_ok) == AttrCall(TRUE, write_ok)

\* SysfsUtils::deauthorize_thunderbolt_dev
DeauthorizeThunderboltDev(write_ok) == AttrCall(FALSE, write_ok)

\* any path of sysfs, and no call made on it yet
InitSysfs ==
    /\ services = EmptyMap
    /\ process_state = PROCESS_STATE_UNKNOWN
    /\ serial = SerialZero
    /\ opened = 0
    /\ closed = {}
    /\ queue = <<>>
    /\ efd = 0
    /\ senderPc = [s \in Senders |-> "idle"]
    /\ ownerPc = "poll"
    /\ sent = <<>>
    /\ dispatched = <<>>
    /\ live = {}
    /\ lastTask = NoTask
    /\ lastEnv = DefaultEnv
    /\ lastOk = TRUE
    /\ lastEvents = <<>>
    /\ prev = NoPrev
    /\ lastCreate = NoCreate
    /\ nsLog = <<>>
    /\ lastCall = NoCall
    /\ PciAuthorizerNew
    /\ SysfsEmpty
    /\ devpath \in DevPaths
    /\ attr_calls = <<>>

NextSysfs ==
    \/ \E write_ok \in BOOLEAN : AuthorizeThunderboltDev(write_ok)
    \/ \E write_ok \in BOOLEAN : DeauthorizeThunderboltDev(write_ok)

\* set_authorized_attribute called on every kind of path, with every answer
\* of the operating system to the write
SpecSysfs == InitSysfs /\ [][NextSysfs]_vars

\* the value set_authorized_attribute(_, enable) wants in the attribute
DesiredValue(enable) == IF enable THEN "1" ELSE "0"

\* C36: setting the authorized attribute is idempotent. A call on an existing
\* thunderbolt path whose attribute already holds the desired value succeeds
\* and writes nothing; a call that follows a call with the same argument on
\* the same path leaves the path as the first call left it (the operating
\* system answering the write of both alike, or the first having succeeded);
\* a call on a path that does not exist, or whose subsystem link is not that
\* of thunderbolt, fails and writes nothing.
C36_SetAuthorizedIdempotent ==
    /\ \A i \in 1..Len(attr_calls) :
         LET c == attr_calls[i] IN
         /\ (/\ c.before.exists
             /\ c.before.subsystem = "thunderbolt"
             /\ c.before.authorized = DesiredValue(c.enable))
              => (c.ok /\ ~c.wrote /\ c.after = c.before)
         /\ (~c.before.exists \/ c.before.subsystem # "thunderbolt")
              => (~c.ok /\ ~c.wrote /\ c.after = c.before)
         /\ ~c.wrote => c.after = c.before
    /\ \A i \in 1..(Len(attr_calls) - 1) :
         LET c1 == attr_calls[i]
             c2 == attr_calls[i + 1]
         IN (c1.enable = c2.enable /\ (c1.ok \/ c1.write_ok = c2.write_ok))
              => (c2.after = c1.after /\ c2.ok = c1.ok /\ (c1.ok => ~c2.wrote))

\* an unauthorized thunderbolt device was authorized twice: the first call
\* wrote 1, the second found it and wrote nothing
C36_Witness ==
    /\ Len(attr_calls) = 2
    /\ attr_calls[1].enable /\ attr_calls[2].enable
    /\ attr_calls[1].before.authorized = "0"
    /\ attr_calls[1].wrote /\ attr_calls[1].ok
    /\ attr_calls[2].ok /\ ~attr_calls[2].wrote
    /\ devpath.authorized = "1"

\* a call on a path that is not one of thunderbolt failed
C36_WitnessNotThunderbolt ==
    /\ Len(attr_calls) = 1
    /\ devpath.exists /\ devpath.subsystem = "pci" /\ devpath.authorized = "0"
    /\ ~attr_calls[1].ok

====
